---- MODULE Spec2Model ----
(***************************************************************************)
(* Model of balkhaev/trender: the video tool service                       *)
(* (apps/video-frames/main.py) and the reel fetcher service                *)
(* (apps/scrapper/main.py).                                                *)
(*                                                                         *)
(* A handler is a pure operator named as in the source.  It takes the      *)
(* request parameters, the uploaded file(s) and the outcomes of the        *)
(* external invocations it makes (env) and yields the response and the     *)
(* ordered log of everything it did: upload reads, temporary-file writes,  *)
(* ffprobe / ffmpeg / scene-detection invocations.  The actions run these  *)
(* handlers for requests that are suspended at their only await point      *)
(* (await video.read()) and keep the request's temporary directory.        *)
(*                                                                         *)
(* Times and widths are integers (seconds, pixels).  An Optional value is  *)
(* <<>> (None) or <<v>>; a dimension or PAR pair is <<>> or <<a, b>>.      *)
(***************************************************************************)
EXTENDS Integers, Sequences, FiniteSets, TLC

VARIABLES
    reqs,       \* video tool: the request each worker slot serves
    dirs,       \* the temporary directories that exist
    last,       \* the request that completed last and its response
    loader,     \* reel fetcher: the module global `loader`
    inits,      \* the initialization sequences get_loader has run, in order
    handles,    \* the clients get_loader has returned to its callers
    pending,    \* requests that have arrived and wait for the event loop
    started,    \* the lifespan startup has run
    chain,      \* successive applications of normalize_video_par to a file
    spans,      \* tracing middleware: the dispatch calls in progress and the last result
    JPEG_QUALITY \* video tool: the module global read from the environment at import

videoVars == <<reqs>>
scrapperVars == <<loader, inits, handles, pending, started>>
parVars == <<chain>>
traceVars == <<spans>>
configVars == <<JPEG_QUALITY>>
vars == <<reqs, dirs, last, loader, inits, handles, pending, started, chain, spans,
          JPEG_QUALITY>>

(***************************************************************************)
(* Bounds of the model.                                                    *)
(***************************************************************************)
MaxWidth == 3
MaxTime == 3
MaxTimeouts == 1
MaxProduced == 3
MaxScenes == 2
MaxShortList == 3
NSlots == 2
\* uuid4 identifiers drawn in a run
MaxUuids == 4
\* files a download leaves in its directory
MaxFiles == 2
\* the largest configured JPEG quality
MaxQuality == 100
\* cookies in a list sent to /cookies or fetched by /cookies/refresh
MaxJarList == 2

(***************************************************************************)
(* Program constants.                                                      *)
(***************************************************************************)
MinConcat == 2
MaxConcat == 20
MaxFramesLimit == 100
MaxRangeFramesLimit == 30

(***************************************************************************)
(* Values.                                                                 *)
(***************************************************************************)
None == <<>>
Some(v) == <<v>>
Val(o) == o[1]
\* Python truthiness of an Optional[float]: None and 0.0 are both false.
Truthy(o) == o # None /\ o[1] # 0

Min2(a, b) == IF a <= b THEN a ELSE b
Max2(a, b) == IF a >= b THEN a ELSE b

(***************************************************************************)
(* A video file as the external tools see it: what ffprobe prints for it   *)
(* and the identity of its bytes.  bytes.id names an upload, bytes.ops the *)
(* re-encodes applied to it; two files are byte-identical iff their bytes  *)
(* are equal.  dur is what float(stdout) gives (None when stdout does not  *)
(* parse), dims what the width x height line parses to, sar the printed    *)
(* sample_aspect_ratio, audio whether an audio stream index is printed.    *)
(***************************************************************************)
Bytes(id, ops) == [id |-> id, ops |-> ops]
File(id, dur, dims, sar, audio) ==
    [dur |-> dur, dims |-> dims, sar |-> sar, audio |-> audio, bytes |-> Bytes(id, <<>>)]
Encoded(f, op) == [f EXCEPT !.bytes = Bytes(f.bytes.id, Append(f.bytes.ops, op))]

\* Names of the files a handler keeps in its temporary directory.
INPUT == "input_video.mp4"

(***************************************************************************)
(* The log of a request.                                                   *)
(***************************************************************************)
Call(tool, op, args, out) == [tool |-> tool, op |-> op, args |-> args, out |-> out]
ReadUpload == Call("io", "read_upload", <<>>, "ok")
WriteFile(name) == Call("io", "write", <<name>>, "ok")
RemoveFile(name) == Call("io", "remove", <<name>>, "ok")
Probe(op, name, oc) == Call("ffprobe", op, <<name>>, oc)
\* The diagnostic output (stderr) of a failed ffmpeg invocation.
Stderr(op) == "<stderr of ffmpeg " \o op \o ">"

IsProbe(c) == c.tool = "ffprobe"
\* The invocations that raise on failure: extract, re-encode, concat.
IsEncode(c) == c.tool = "ffmpeg"
IsTool(c) == c.tool \in {"ffprobe", "ffmpeg", "scenedetect"}

(***************************************************************************)
(* Exceptions and responses.                                               *)
(***************************************************************************)
Exc(type, status, msg) == [type |-> type, status |-> status, msg |-> msg]
\* A message is the sequence of the pieces it is formatted from.
HTTPException(status, detail) == Exc("HTTPException", status, <<detail>>)
TimeoutExpired == Exc("TimeoutExpired", 0, <<"timed out">>)
RuntimeError(msg) == Exc("RuntimeError", 0, <<msg>>)
\* RuntimeError(f"{msg}{result.stderr}")
ToolError(msg, stderr) == Exc("RuntimeError", 0, <<msg, stderr>>)
OtherError(msg) == Exc("Exception", 0, <<msg>>)
NoExc == Exc("", 0, <<>>)
\* str(e): starlette's HTTPException prints "<status>: <detail>".
StatusStr(n) == CASE n = 400 -> "400" [] n = 500 -> "500" [] n = 504 -> "504" [] OTHER -> "?"
StrExc(e) ==
    IF e.type = "HTTPException" THEN <<StatusStr(e.status) \o ": ">> \o e.msg ELSE e.msg

Resp(status, detail, headers, body, json) ==
    [status |-> status, detail |-> detail, headers |-> headers, body |-> body, json |-> json]
ErrorResp(status, detail) == Resp(status, detail, <<>>, None, <<>>)
Streaming(headers, body) == Resp(200, <<>>, headers, Some(body), <<>>)
Json(json) == Resp(200, <<>>, <<>>, None, json)

\* What the body of a handler ends with: a response or a raised exception.
Returned(resp, log) == [raised |-> FALSE, exc |-> NoExc, resp |-> resp, log |-> log]
Raised(exc, log) == [raised |-> TRUE, exc |-> exc, resp |-> ErrorResp(0, <<>>), log |-> log]

\* A variant with the last except clause only: every exception becomes a 500.
ExceptClauses_catchall(r, prefix) ==
    IF ~r.raised THEN [resp |-> r.resp, log |-> r.log]
    ELSE [resp |-> ErrorResp(500, <<prefix>> \o StrExc(r.exc)), log |-> r.log]

\* The except clauses every video-tool handler ends with.
ExceptClauses(r, prefix) ==
    IF ~r.raised THEN [resp |-> r.resp, log |-> r.log]
    ELSE CASE r.exc.type = "TimeoutExpired" ->
                [resp |-> ErrorResp(504, <<"Video processing timed out">>), log |-> r.log]
           [] r.exc.type = "RuntimeError" ->
                [resp |-> ErrorResp(500, r.exc.msg), log |-> r.log]
           [] OTHER ->
                [resp |-> ErrorResp(500, <<prefix>> \o StrExc(r.exc)), log |-> r.log]

(***************************************************************************)
(* Probes.  oc is the outcome of the ffprobe process: "ok" or "timeout".   *)
(* Every probe swallows every exception and returns None (False for the    *)
(* audio probe).                                                           *)
(***************************************************************************)
ProbeOutcomes == {"ok", "timeout"}

get_video_duration(f, oc) == IF oc = "ok" THEN f.dur ELSE None

has_audio_stream(f, oc) == IF oc = "ok" THEN f.audio ELSE FALSE

get_video_dimensions(f, oc) == IF oc = "ok" THEN f.dims ELSE None

\* sar.split(":") and int() of the parts, for the outputs the model draws.
SarOutputs == {"", "N/A", "1:1", "4:3", "2:1", "1:1:1", "x:y"}
SarParts(sar) ==
    CASE sar = "1:1" -> <<1, 1>>
      [] sar = "4:3" -> <<4, 3>>
      [] sar = "2:1" -> <<2, 1>>
      [] OTHER -> None

get_video_par(f, oc) ==
    IF oc # "ok" THEN None
    ELSE IF f.sar = "" \/ f.sar = "N/A" \/ f.sar = "1:1" THEN <<1, 1>>
    ELSE SarParts(f.sar)

(***************************************************************************)
(* ffmpeg invocations.  oc is the outcome of the process: "ok" (exit 0,    *)
(* output written), "noout" (exit 0, no output file), "fail" (non-zero     *)
(* exit) or "timeout".  Each yields the exception it raises (NoExc when it *)
(* returns), its log entry and the output file (None when there is none).  *)
(***************************************************************************)
EncOutcomes == {"ok", "noout", "fail", "timeout"}

Ran(exc, call, out) == [exc |-> exc, call |-> call, out |-> out]

\* A variant in which a timed-out process is not raised but read as a run that
\* left no output.
FfmpegResult_quiet(op, args, oc, msg, outfile) ==
    CASE oc = "fail" -> Ran(ToolError(msg, Stderr(op)), Call("ffmpeg", op, args, oc), None)
      [] oc \in {"noout", "timeout"} -> Ran(NoExc, Call("ffmpeg", op, args, oc), None)
      [] OTHER -> Ran(NoExc, Call("ffmpeg", op, args, oc), Some(outfile))

FfmpegResult(op, args, oc, msg, outfile) ==
    CASE oc = "timeout" -> Ran(TimeoutExpired, Call("ffmpeg", op, args, oc), None)
      [] oc = "fail" -> Ran(ToolError(msg, Stderr(op)), Call("ffmpeg", op, args, oc), None)
      [] oc = "noout" -> Ran(NoExc, Call("ffmpeg", op, args, oc), None)
      [] OTHER -> Ran(NoExc, Call("ffmpeg", op, args, oc), Some(outfile))

\* scale=W:-2 keeps the aspect ratio and makes the height even.
ScaleHeight(w, h, nw) == IF w <= 0 THEN h ELSE 2 * ((h * nw + w) \div (2 * w))

ResizedFile(f, nw) ==
    [Encoded(f, "resize") EXCEPT
        !.dims = IF f.dims = None THEN None ELSE <<nw, ScaleHeight(f.dims[1], f.dims[2], nw)>>]

resize_video_ffmpeg(f, name, target_width, oc) ==
    FfmpegResult("resize", <<name, target_width>>, oc, "FFmpeg resize failed: ",
                 ResizedFile(f, target_width))

TrimmedFile(f, start_time, duration) ==
    [Encoded(f, "trim") EXCEPT
        !.dur = IF f.dur = None THEN None
                ELSE Some(Max2(0, Min2(duration, Val(f.dur) - start_time))),
        !.audio = TRUE]

trim_video_ffmpeg(f, name, start_time, end_time, oc) ==
    LET duration == end_time - start_time
    IN FfmpegResult("trim", <<name, start_time, duration>>, oc, "FFmpeg trim failed: ",
                    TrimmedFile(f, start_time, duration))

(***************************************************************************)
(* The outcomes of the external invocations of one request: env.pr[i] is   *)
(* the outcome of the i-th ffprobe invocation site of the handler, in      *)
(* source order, env.enc[i] that of its i-th ffmpeg invocation site.       *)
(***************************************************************************)
Timeouts(env) ==
    Cardinality({i \in DOMAIN env.pr : env.pr[i] = "timeout"})
    + Cardinality({i \in DOMAIN env.enc : env.enc[i] = "timeout"})

Envs(np, ne) ==
    {env \in [pr : [1..np -> ProbeOutcomes], enc : [1..ne -> EncOutcomes]] :
        Timeouts(env) <= MaxTimeouts}

\* A few representatives: every invocation succeeds, the first probe times
\* out, or the first ffmpeg run ends in one of its outcomes.
CoarseEnvs(np, ne) ==
    {[pr |-> [i \in 1..np |-> "ok"], enc |-> [i \in 1..ne |-> IF i = 1 THEN oc ELSE "ok"]] :
        oc \in EncOutcomes}
    \cup {[pr |-> [i \in 1..np |-> IF i = 1 THEN "timeout" ELSE "ok"],
           enc |-> [i \in 1..ne |-> "ok"]]}

EnvsOf(full, np, ne) == IF full THEN Envs(np, ne) ELSE CoarseEnvs(np, ne)

HdrNum(o) == IF Truthy(o) THEN o ELSE None

(***************************************************************************)
(* POST /trim                                                              *)
(***************************************************************************)
trim_validate(p) ==
    IF p.start_time < 0 THEN "start_time must be non-negative"
    ELSE IF p.end_time <= p.start_time THEN "end_time must be greater than start_time"
    ELSE ""

\* The end time handed to trim_video_ffmpeg.
trim_end_time(end_time, original_duration) ==
    IF Truthy(original_duration) /\ end_time > Val(original_duration)
    THEN Val(original_duration)
    ELSE end_time

trim_body(p, up, env) ==
    LET log0 == <<ReadUpload, WriteFile(INPUT)>>
        original_duration == get_video_duration(up, env.pr[1])
        log1 == Append(log0, Probe("duration", INPUT, env.pr[1]))
        end_time == trim_end_time(p.end_time, original_duration)
        r == trim_video_ffmpeg(up, INPUT, p.start_time, end_time, env.enc[1])
        log2 == Append(log1, r.call)
    IN  IF r.exc # NoExc THEN Raised(r.exc, log2)
        ELSE IF r.out = None
        THEN Raised(HTTPException(500, "Failed to create trimmed video"), log2)
        ELSE LET trimmed_duration == get_video_duration(Val(r.out), env.pr[2])
                 log3 == Append(log2, Probe("duration", "output_trimmed.mp4", env.pr[2]))
             IN Returned(Streaming("X-Video-Duration" :> HdrNum(trimmed_duration),
                                   Val(r.out).bytes), log3)

trim_video(p, up, env) == ExceptClauses(trim_body(p, up, env), "Unexpected error: ")

(***************************************************************************)
(* POST /resize                                                            *)
(***************************************************************************)
width_validate(p) ==
    IF p.min_width <= 0 THEN "min_width must be positive"
    ELSE IF p.target_width < p.min_width THEN "target_width must be >= min_width"
    ELSE ""

\* A variant that upscales every narrow video straight to target_width; the
\* width policy must tell it from the handler's.
resize_new_width_target(original_width, p) ==
    IF original_width < p.target_width THEN p.target_width ELSE original_width

\* The width /resize settles on for a video of width original_width.
resize_new_width(original_width, p) ==
    IF original_width < p.min_width THEN p.min_width
    ELSE IF original_width < p.target_width THEN p.target_width
    ELSE original_width

\* The else branch of the policy: return the upload as it is.
resize_passthrough(original_width, p) ==
    ~(original_width < p.min_width) /\ ~(original_width < p.target_width)

resize_body(p, up, env) ==
    LET log0 == <<ReadUpload, WriteFile(INPUT)>>
        dimensions == get_video_dimensions(up, env.pr[1])
        log1 == Append(log0, Probe("dims", INPUT, env.pr[1]))
    IN  IF dimensions = None
        THEN Raised(HTTPException(400, "Could not determine video dimensions"), log1)
        ELSE
        LET original_width == dimensions[1]
            original_height == dimensions[2]
            duration == get_video_duration(up, env.pr[2])
            log2 == Append(log1, Probe("duration", INPUT, env.pr[2]))
            new_width == resize_new_width(original_width, p)
        IN  IF resize_passthrough(original_width, p)
            THEN Returned(Streaming(
                    ("X-Original-Width" :> original_width)
                    @@ ("X-Original-Height" :> original_height)
                    @@ ("X-New-Width" :> original_width)
                    @@ ("X-Resized" :> "false")
                    @@ ("X-Video-Duration" :> HdrNum(duration)),
                    up.bytes), log2)
            ELSE
            LET r == resize_video_ffmpeg(up, INPUT, new_width, env.enc[1])
                log3 == Append(log2, r.call)
            IN  IF r.exc # NoExc THEN Raised(r.exc, log3)
                ELSE IF r.out = None
                THEN Raised(HTTPException(500, "Failed to create resized video"), log3)
                ELSE
                LET new_dimensions == get_video_dimensions(Val(r.out), env.pr[3])
                    log4 == Append(log3, Probe("dims", "output_resized.mp4", env.pr[3]))
                    new_height == IF new_dimensions # None THEN new_dimensions[2] ELSE 0
                IN  Returned(Streaming(
                        ("X-Original-Width" :> original_width)
                        @@ ("X-Original-Height" :> original_height)
                        @@ ("X-New-Width" :> new_width)
                        @@ ("X-New-Height" :> new_height)
                        @@ ("X-Resized" :> "true")
                        @@ ("X-Video-Duration" :> HdrNum(duration)),
                        Val(r.out).bytes), log4)

resize_video(p, up, env) == ExceptClauses(resize_body(p, up, env), "Unexpected error: ")

(***************************************************************************)
(* POST /extend-duration                                                   *)
(***************************************************************************)
extend_validate(p) ==
    IF p.target_duration <= 0 THEN "target_duration must be positive" ELSE ""

ExtendedFile(f, extension_duration) ==
    [Encoded(f, "extend") EXCEPT
        !.dur = IF f.dur = None THEN None ELSE Some(Val(f.dur) + extension_duration),
        !.audio = TRUE]

\* Yields the exception raised, the log entries and the file at output_path.
\* pr is the outcomes of its three probes (duration, dimensions, audio).
extend_video_with_black(f, target_duration, pr, oc) ==
    LET current_duration == get_video_duration(f, pr[1])
        c1 == <<Probe("duration", INPUT, pr[1])>>
    IN  IF ~Truthy(current_duration)
        THEN [exc |-> RuntimeError("Could not determine video duration"),
              calls |-> c1, out |-> None]
        ELSE IF Val(current_duration) >= target_duration
        THEN [exc |-> NoExc, calls |-> Append(c1, WriteFile("output_extended.mp4")),
              out |-> Some(f)]
        ELSE
        LET dimensions == get_video_dimensions(f, pr[2])
            c2 == Append(c1, Probe("dims", INPUT, pr[2]))
        IN  IF dimensions = None
            THEN [exc |-> RuntimeError("Could not determine video dimensions"),
                  calls |-> c2, out |-> None]
            ELSE
            LET extension_duration == target_duration - Val(current_duration)
                video_has_audio == has_audio_stream(f, pr[3])
                c3 == Append(c2, Probe("audio", INPUT, pr[3]))
                r == FfmpegResult("extend",
                        <<INPUT, extension_duration, dimensions, video_has_audio>>, oc,
                        "FFmpeg extend failed: ", ExtendedFile(f, extension_duration))
            IN  [exc |-> r.exc, calls |-> Append(c3, r.call), out |-> r.out]

\* A variant that also extends a video already as long as the target.
extend_was_extended_le(original_duration, target_duration) ==
    Val(original_duration) <= target_duration

\* was_extended = original_duration < target_duration
extend_was_extended(original_duration, target_duration) ==
    Val(original_duration) < target_duration

extend_body(p, up, env) ==
    LET log0 == <<ReadUpload, WriteFile(INPUT)>>
        original_duration == get_video_duration(up, env.pr[1])
        log1 == Append(log0, Probe("duration", INPUT, env.pr[1]))
    IN  IF ~Truthy(original_duration)
        THEN Raised(HTTPException(400, "Could not determine video duration"), log1)
        ELSE
        LET was_extended == extend_was_extended(original_duration, p.target_duration)
            r == IF was_extended
                 THEN extend_video_with_black(up, p.target_duration,
                        <<env.pr[2], env.pr[3], env.pr[4]>>, env.enc[1])
                 ELSE [exc |-> NoExc, calls |-> <<>>, out |-> Some(up)]
            output_name == IF was_extended THEN "output_extended.mp4" ELSE INPUT
            log2 == log1 \o r.calls
        IN  IF r.exc # NoExc THEN Raised(r.exc, log2)
            ELSE
            LET new_duration == IF r.out = None THEN None
                                ELSE get_video_duration(Val(r.out), env.pr[5])
                log3 == Append(log2, Probe("duration", output_name, env.pr[5]))
            IN  IF r.out = None
                THEN Raised(OtherError("[Errno 2] No such file or directory"), log3)
                ELSE Returned(Streaming(
                        ("X-Original-Duration" :> Val(original_duration))
                        @@ ("X-New-Duration" :>
                                IF Truthy(new_duration) THEN Val(new_duration)
                                ELSE p.target_duration)
                        @@ ("X-Extended" :> IF was_extended THEN "true" ELSE "false"),
                        Val(r.out).bytes), log3)

extend_duration(p, up, env) == ExceptClauses(extend_body(p, up, env), "Unexpected error: ")

(***************************************************************************)
(* POST /concat                                                            *)
(***************************************************************************)
\* A variant whose lower bound is one upload; the bounds property of /concat
\* must tell it from the handler's validation.
concat_validate_min1(videos) ==
    IF Len(videos) < 1 THEN "At least 2 videos required for concatenation"
    ELSE IF Len(videos) > MaxConcat THEN "Maximum 20 videos allowed"
    ELSE ""

concat_validate(videos) ==
    IF Len(videos) < MinConcat THEN "At least 2 videos required for concatenation"
    ELSE IF Len(videos) > MaxConcat THEN "Maximum 20 videos allowed"
    ELSE ""

\* video_{i:03d}.mp4, i counted from 0.
VideoPath(i) ==
    "video_" \o (IF i < 10 THEN "00" ELSE IF i < 100 THEN "0" ELSE "") \o ToString(i) \o ".mp4"
CONCAT_LIST == "concat_list.txt"

RECURSIVE SumDur(_)
SumDur(videos) ==
    IF videos = <<>> THEN Some(0)
    ELSE LET rest == SumDur(Tail(videos))
         IN IF Head(videos).dur = None \/ rest = None THEN None
            ELSE Some(Val(Head(videos).dur) + Val(rest))

ConcatFile(videos) ==
    [bytes |-> Bytes(0, <<"concat">>), dur |-> SumDur(videos), dims |-> videos[1].dims,
     sar |-> videos[1].sar, audio |-> videos[1].audio]

\* A variant that lists the paths last to first.
ConcatList_reversed(video_paths) ==
    [i \in 1..Len(video_paths) |-> <<"file", video_paths[Len(video_paths) + 1 - i]>>]

\* The lines of the list file, one per path, in the order of video_paths.
ConcatList(video_paths) == [i \in 1..Len(video_paths) |-> <<"file", video_paths[i]>>]

concat_videos_ffmpeg(videos, video_paths, oc) ==
    LET w == Call("io", "write", <<CONCAT_LIST, ConcatList(video_paths)>>, "ok")
        r == FfmpegResult("concat", <<CONCAT_LIST>>, oc, "FFmpeg concat failed: ",
                          ConcatFile(videos))
    IN  IF oc = "timeout"
        THEN [exc |-> r.exc, calls |-> <<w, r.call>>, out |-> None]
        ELSE [exc |-> r.exc, calls |-> <<w, r.call, RemoveFile(CONCAT_LIST)>>, out |-> r.out]

RECURSIVE SaveAll(_, _)
\* The loop that reads upload i and writes it to video_{i}.mp4.
SaveAll(videos, i) ==
    IF i > Len(videos) THEN <<>>
    ELSE <<ReadUpload, Call("io", "write", <<VideoPath(i - 1), videos[i].bytes>>, "ok")>>
         \o SaveAll(videos, i + 1)

concat_body(videos, env) ==
    LET log0 == SaveAll(videos, 1)
        video_paths == [i \in 1..Len(videos) |-> VideoPath(i - 1)]
        r == concat_videos_ffmpeg(videos, video_paths, env.enc[1])
        log1 == log0 \o r.calls
    IN  IF r.exc # NoExc THEN Raised(r.exc, log1)
        ELSE IF r.out = None
        THEN Raised(HTTPException(500, "Failed to create concatenated video"), log1)
        ELSE
        LET duration == get_video_duration(Val(r.out), env.pr[1])
            log2 == Append(log1, Probe("duration", "output.mp4", env.pr[1]))
        IN  Returned(Streaming(
                ("X-Video-Duration" :> HdrNum(duration))
                @@ ("X-Video-Count" :> Len(videos)),
                Val(r.out).bytes), log2)

concat_videos(videos, env) == ExceptClauses(concat_body(videos, env), "Unexpected error: ")

(***************************************************************************)
(* Frame extraction: POST /extract-frames, /extract-frames-from-bytes,     *)
(* /extract-frames-range.  exists is the set of indices i for which the    *)
(* tool wrote frame_{i:04d}.jpg.                                           *)
(***************************************************************************)
\* int(os.getenv("JPEG_QUALITY", "85")): the default
DefaultJpegQuality == 85

\* A variant without the clamp.
jpeg_qscale_unclamped(quality) == 31 - (quality \div 3)

\* max(1, min(31, 31 - quality // 3))
jpeg_qscale(quality) == Max2(1, Min2(31, 31 - (quality \div 3)))

ExtractOutcomes == {"ok", "fail", "timeout"}

\* A variant whose loop is range(1, max_frames): it never looks at the last
\* numbered file.
RECURSIVE CollectFrames_short(_, _, _)
CollectFrames_short(exists, i, max_frames) ==
    IF i >= max_frames \/ i \notin exists THEN <<>>
    ELSE <<i>> \o CollectFrames_short(exists, i + 1, max_frames)

RECURSIVE CollectFrames(_, _, _)
\* for i in range(1, max_frames + 1): append while the file exists, else break
CollectFrames(exists, i, max_frames) ==
    IF i > max_frames \/ i \notin exists THEN <<>>
    ELSE <<i>> \o CollectFrames(exists, i + 1, max_frames)

\* The os.path.exists() answers that loop asks for, as log entries.
RECURSIVE FrameChecks(_, _, _)
FrameChecks(exists, i, max_frames) ==
    IF i > max_frames THEN <<>>
    ELSE IF i \notin exists THEN <<Call("os", "exists", <<i>>, "no")>>
    ELSE <<Call("os", "exists", <<i>>, "yes")>> \o FrameChecks(exists, i + 1, max_frames)

\* The numbered files the tool left in the directory, as a log entry.
FramesWritten(exists) == Call("os", "written", <<>>, exists)

B64(x) == <<"base64", x>>
\* A variant that encodes the files last to first.
frames_to_base64_reversed(frame_paths) ==
    [i \in 1..Len(frame_paths) |-> B64(frame_paths[Len(frame_paths) + 1 - i])]

frames_to_base64(frame_paths) == [i \in 1..Len(frame_paths) |-> B64(frame_paths[i])]

extract_frames_ffmpeg(interval_sec, max_frames, oc, exists) ==
    LET r == FfmpegResult("extract",
                <<INPUT, interval_sec, max_frames, jpeg_qscale(JPEG_QUALITY)>>, oc,
                "FFmpeg failed: ", exists)
    IN  [exc |-> r.exc,
         calls |-> IF r.exc # NoExc THEN <<r.call>>
                   ELSE <<r.call, FramesWritten(exists)>>
                        \o FrameChecks(exists, 1, max_frames),
         out |-> IF r.exc # NoExc THEN <<>> ELSE CollectFrames(exists, 1, max_frames)]

frames_validate(p) ==
    IF p.interval_sec <= 0 THEN "interval_sec must be positive"
    ELSE IF p.max_frames <= 0 \/ p.max_frames > MaxFramesLimit
    THEN "max_frames must be between 1 and 100"
    ELSE ""

FramesResponse(success, frames, duration_sec, interval_sec, error) ==
    [success |-> success, frames |-> frames, count |-> Len(frames),
     duration_sec |-> duration_sec, interval_sec |-> interval_sec, error |-> error]

frames_body(p, up, env, log0) ==
    LET duration == get_video_duration(up, env.pr[1])
        log1 == Append(log0, Probe("duration", INPUT, env.pr[1]))
        r == extract_frames_ffmpeg(p.interval_sec, p.max_frames, env.enc[1], env.frames)
        log2 == log1 \o r.calls
    IN  IF r.exc # NoExc THEN Raised(r.exc, log2)
        ELSE IF r.out = <<>>
        THEN Returned(Json(FramesResponse(FALSE, <<>>, duration, <<p.interval_sec, 1>>,
                                          "No frames extracted from video")), log2)
        ELSE Returned(Json(FramesResponse(TRUE, frames_to_base64(r.out), duration,
                                          <<p.interval_sec, 1>>, "")), log2)

extract_frames(p, up, env) ==
    ExceptClauses(frames_body(p, up, env, <<ReadUpload, WriteFile(INPUT)>>),
                  "Unexpected error: ")

\* The body arrives as bytes: nothing is awaited.
extract_frames_from_bytes(p, up, env) ==
    ExceptClauses(frames_body(p, up, env, <<WriteFile(INPUT)>>), "Unexpected error: ")

\* A variant with the frame limit of /extract-frames.
range_validate_100(p) ==
    IF p.start_time < 0 THEN "start_time must be non-negative"
    ELSE IF p.end_time <= p.start_time THEN "end_time must be greater than start_time"
    ELSE IF p.max_frames <= 0 \/ p.max_frames > MaxFramesLimit
    THEN "max_frames must be between 1 and 30"
    ELSE ""

range_validate(p) ==
    IF p.start_time < 0 THEN "start_time must be non-negative"
    ELSE IF p.end_time <= p.start_time THEN "end_time must be greater than start_time"
    ELSE IF p.max_frames <= 0 \/ p.max_frames > MaxRangeFramesLimit
    THEN "max_frames must be between 1 and 30"
    ELSE ""

\* A quotient a / b, kept as the pair <<a, b>>.
Quot(a, b) == <<a, b>>
QuotEq(x, y) == x[1] * y[2] = y[1] * x[2]

\* A variant that spreads every range over a single interval.
range_interval_whole(duration, max_frames) == Quot(duration, 1)

\* The sampling interval of a range of length duration.
range_interval(duration, max_frames) ==
    IF max_frames > 1 THEN Quot(duration, max_frames) ELSE Quot(duration, 1)

extract_frames_in_range(start_time, end_time, max_frames, oc, exists) ==
    LET duration == end_time - start_time
    IN  IF duration <= 0 THEN [exc |-> NoExc, calls |-> <<>>, out |-> <<>>]
        ELSE
        LET interval == range_interval(duration, max_frames)
            r == FfmpegResult("range",
                    <<INPUT, start_time, duration, interval, max_frames,
                      jpeg_qscale(JPEG_QUALITY)>>, oc, "FFmpeg failed: ", exists)
        IN  [exc |-> r.exc,
             calls |-> IF r.exc # NoExc THEN <<r.call>>
                       ELSE <<r.call, FramesWritten(exists)>>
                            \o FrameChecks(exists, 1, max_frames),
             out |-> IF r.exc # NoExc THEN <<>> ELSE CollectFrames(exists, 1, max_frames)]

range_body(p, up, env) ==
    LET log0 == <<ReadUpload, WriteFile(INPUT)>>
        duration == get_video_duration(up, env.pr[1])
        log1 == Append(log0, Probe("duration", INPUT, env.pr[1]))
        end_time == IF Truthy(duration) /\ p.end_time > Val(duration)
                    THEN Val(duration) ELSE p.end_time
        r == extract_frames_in_range(p.start_time, end_time, p.max_frames,
                                     env.enc[1], env.frames)
        log2 == log1 \o r.calls
    IN  IF r.exc # NoExc THEN Raised(r.exc, log2)
        ELSE IF r.out = <<>>
        THEN Returned(Json(FramesResponse(FALSE, <<>>, Some(end_time - p.start_time),
                        Quot(end_time - p.start_time, p.max_frames),
                        "No frames extracted from range")), log2)
        ELSE Returned(Json(FramesResponse(TRUE, frames_to_base64(r.out),
                        Some(end_time - p.start_time),
                        Quot(end_time - p.start_time, p.max_frames), "")), log2)

extract_frames_range(p, up, env) ==
    ExceptClauses(range_body(p, up, env), "Unexpected error: ")

(***************************************************************************)
(* PAR normalization.                                                      *)
(***************************************************************************)
\* scale=iw*sar:ih,setsar=1
ParNormalizedFile(f, par) ==
    [Encoded(f, "parnorm") EXCEPT
        !.sar = "1:1",
        !.dims = IF f.dims = None \/ par = None \/ par[2] = 0 THEN f.dims
                 ELSE <<(f.dims[1] * par[1]) \div par[2], f.dims[2]>>]

\* A variant without the copy of a video that is already square: it always
\* re-encodes.
normalize_video_par_reencode(f, name, po, oc) ==
    LET r == FfmpegResult("parnorm", <<name>>, oc, "FFmpeg PAR normalization failed: ",
                          ParNormalizedFile(f, SarParts(f.sar)))
    IN  [exc |-> r.exc, calls |-> <<Probe("par", name, po), r.call>>, out |-> r.out]

\* f is the file at video_path, name its name, po the outcome of the PAR
\* probe, oc that of the re-encode.
normalize_video_par(f, name, po, oc) ==
    LET par == get_video_par(f, po)
        c1 == <<Probe("par", name, po)>>
    IN  IF par = <<1, 1>>
        THEN [exc |-> NoExc, calls |-> Append(c1, WriteFile("copy")), out |-> Some(f)]
        ELSE
        LET r == FfmpegResult("parnorm", <<name>>, oc, "FFmpeg PAR normalization failed: ",
                              ParNormalizedFile(f, SarParts(f.sar)))
        IN  [exc |-> r.exc, calls |-> Append(c1, r.call), out |-> r.out]

(***************************************************************************)
(* POST /normalize                                                         *)
(***************************************************************************)
ParStr(par) ==
    CASE par = None -> "unknown"
      [] par = <<1, 1>> -> "1:1"
      [] par = <<2, 1>> -> "2:1"
      [] OTHER -> "4:3"

\* A variant whose first test is `<=`: a video exactly min_width wide is taken
\* for too narrow.
normalize_new_width_le(original_width, p) ==
    IF original_width <= p.min_width THEN p.min_width
    ELSE IF original_width < p.target_width THEN p.target_width
    ELSE original_width

\* The width /normalize settles on for a video of width original_width.
normalize_new_width(original_width, p) ==
    IF original_width < p.min_width THEN p.min_width
    ELSE IF original_width < p.target_width THEN p.target_width
    ELSE original_width

\* A variant that also normalizes a video whose PAR is unknown.
normalize_needs_par_unknown(original_par) == original_par # <<1, 1>>

\* Step 1 runs only for a PAR that was probed and is not 1:1.
normalize_needs_par(original_par) == original_par # None /\ original_par # <<1, 1>>

normalize_body(p, up, env) ==
    LET log0 == <<ReadUpload, WriteFile(INPUT)>>
        dimensions == get_video_dimensions(up, env.pr[1])
        log1 == Append(log0, Probe("dims", INPUT, env.pr[1]))
    IN  IF dimensions = None
        THEN Raised(HTTPException(400, "Could not determine video dimensions"), log1)
        ELSE
        LET duration == get_video_duration(up, env.pr[2])
            original_par == get_video_par(up, env.pr[3])
            log3 == log1 \o <<Probe("duration", INPUT, env.pr[2]),
                              Probe("par", INPUT, env.pr[3])>>
            was_par_normalized == normalize_needs_par(original_par)
            n == IF was_par_normalized
                 THEN normalize_video_par(up, INPUT, env.pr[4], env.enc[1])
                 ELSE [exc |-> NoExc, calls |-> <<>>, out |-> Some(up)]
            log4 == log3 \o n.calls
        IN  IF n.exc # NoExc THEN Raised(n.exc, log4)
            ELSE
            LET new_dims == IF was_par_normalized /\ n.out # None
                            THEN get_video_dimensions(Val(n.out), env.pr[5]) ELSE None
                log5 == IF was_par_normalized
                        THEN Append(log4, Probe("dims", "par_normalized.mp4", env.pr[5]))
                        ELSE log4
                original_width == IF new_dims # None THEN new_dims[1] ELSE dimensions[1]
                original_height == IF new_dims # None THEN new_dims[2] ELSE dimensions[2]
                new_width == normalize_new_width(original_width, p)
                was_resized == new_width # original_width
                current_name == IF was_par_normalized THEN "par_normalized.mp4" ELSE INPUT
                r == IF was_resized
                     THEN FfmpegResult("resize", <<current_name, new_width>>,
                            IF n.out = None /\ env.enc[2] \in {"ok", "noout"}
                            THEN "fail" ELSE env.enc[2],
                            "FFmpeg resize failed: ",
                            IF n.out = None THEN None ELSE ResizedFile(Val(n.out), new_width))
                     ELSE Ran(NoExc, <<>>, n.out)
                log6 == IF was_resized THEN Append(log5, r.call) ELSE log5
            IN  IF r.exc # NoExc THEN Raised(r.exc, log6)
                ELSE
                LET final_dims == IF was_resized /\ r.out # None
                                  THEN get_video_dimensions(Val(r.out), env.pr[6]) ELSE None
                    log7 == IF was_resized
                            THEN Append(log6, Probe("dims", "output_normalized.mp4", env.pr[6]))
                            ELSE log6
                    final_width == IF final_dims # None THEN final_dims[1] ELSE new_width
                    final_height == IF final_dims # None THEN final_dims[2]
                                    ELSE original_height
                IN  IF ~was_par_normalized /\ ~was_resized
                    THEN Returned(Streaming(
                            ("X-Original-Width" :> original_width)
                            @@ ("X-Original-Height" :> original_height)
                            @@ ("X-New-Width" :> original_width)
                            @@ ("X-New-Height" :> original_height)
                            @@ ("X-Original-PAR" :> ParStr(original_par))
                            @@ ("X-Was-Resized" :> "false")
                            @@ ("X-Was-PAR-Normalized" :> "false")
                            @@ ("X-Video-Duration" :> HdrNum(duration)),
                            up.bytes), log7)
                    ELSE IF r.out = None
                    THEN Raised(OtherError("[Errno 2] No such file or directory"), log7)
                    ELSE Returned(Streaming(
                            ("X-Original-Width" :> dimensions[1])
                            @@ ("X-Original-Height" :> dimensions[2])
                            @@ ("X-New-Width" :> final_width)
                            @@ ("X-New-Height" :> final_height)
                            @@ ("X-Original-PAR" :> ParStr(original_par))
                            @@ ("X-Was-Resized" :> IF was_resized THEN "true" ELSE "false")
                            @@ ("X-Was-PAR-Normalized" :>
                                    IF was_par_normalized THEN "true" ELSE "false")
                            @@ ("X-Video-Duration" :> HdrNum(duration)),
                            Val(r.out).bytes), log7)

normalize_video(p, up, env) == ExceptClauses(normalize_body(p, up, env), "Unexpected error: ")

(***************************************************************************)
(* POST /detect-scenes                                                     *)
(* env.det is the outcome of the scene-detection library ("ok" or          *)
(* "error"), env.scenes the scene list it returns, env.th[i] the outcome   *)
(* of the thumbnail extraction of scene i.                                 *)
(***************************************************************************)
scenes_validate(p) ==
    IF p.threshold <= 0 THEN "threshold must be positive"
    ELSE IF p.min_scene_len <= 0 THEN "min_scene_len must be positive"
    ELSE ""

ThumbOutcomes == {"ok", "fail", "timeout"}

\* A variant that also swallows the timeout of the process and returns False.
extract_frame_at_time_swallow(name, timestamp, i, oc) ==
    [exc |-> NoExc,
     call |-> Call("ffmpeg", "thumb", <<name, timestamp, i, jpeg_qscale(JPEG_QUALITY)>>, oc),
     ok |-> oc = "ok"]

\* Runs ffmpeg for one frame; returns returncode == 0.
extract_frame_at_time(name, timestamp, i, oc) ==
    LET c == Call("ffmpeg", "thumb", <<name, timestamp, i, jpeg_qscale(JPEG_QUALITY)>>, oc)
    IN  IF oc = "timeout" THEN [exc |-> TimeoutExpired, call |-> c, ok |-> FALSE]
        ELSE [exc |-> NoExc, call |-> c, ok |-> oc = "ok"]

SceneInfo(i, sc, thumbnail) ==
    [index |-> i, start_time |-> sc.start, end_time |-> sc.end,
     duration |-> sc.end - sc.start, start_frame |-> sc.start_frame,
     end_frame |-> sc.end_frame, thumbnail_base64 |-> thumbnail]

\* A variant that takes the thumbnails from the PAR-normalized file.
RECURSIVE ScenesLoop_normalized(_, _, _, _, _, _)
ScenesLoop_normalized(scene_list, i, extract_thumbnails, th, scenes, calls) ==
    IF i > Len(scene_list) THEN [exc |-> NoExc, scenes |-> scenes, calls |-> calls]
    ELSE
    LET sc == scene_list[i]
        mid_time == Quot(sc.start + sc.end, 2)
    IN  IF ~extract_thumbnails
        THEN ScenesLoop_normalized(scene_list, i + 1, extract_thumbnails, th,
                        Append(scenes, SceneInfo(i - 1, sc, None)), calls)
        ELSE
        LET t == extract_frame_at_time("normalized_video.mp4", mid_time, i - 1, th[i])
        IN  IF t.exc # NoExc
            THEN [exc |-> t.exc, scenes |-> scenes, calls |-> Append(calls, t.call)]
            ELSE ScenesLoop_normalized(scene_list, i + 1, extract_thumbnails, th,
                    Append(scenes, SceneInfo(i - 1, sc,
                        IF t.ok THEN Some(B64(<<"thumb", i - 1>>)) ELSE None)),
                    Append(calls, t.call))

RECURSIVE ScenesLoop(_, _, _, _, _, _)
\* for i, (start_tc, end_tc) in enumerate(scene_list): i is counted from 1 here,
\* the index of the record is i - 1.
ScenesLoop(scene_list, i, extract_thumbnails, th, scenes, calls) ==
    IF i > Len(scene_list) THEN [exc |-> NoExc, scenes |-> scenes, calls |-> calls]
    ELSE
    LET sc == scene_list[i]
        mid_time == Quot(sc.start + sc.end, 2)
    IN  IF ~extract_thumbnails
        THEN ScenesLoop(scene_list, i + 1, extract_thumbnails, th,
                        Append(scenes, SceneInfo(i - 1, sc, None)), calls)
        ELSE
        LET t == extract_frame_at_time(INPUT, mid_time, i - 1, th[i])
        IN  IF t.exc # NoExc
            THEN [exc |-> t.exc, scenes |-> scenes, calls |-> Append(calls, t.call)]
            ELSE ScenesLoop(scene_list, i + 1, extract_thumbnails, th,
                    Append(scenes, SceneInfo(i - 1, sc,
                        IF t.ok THEN Some(B64(<<"thumb", i - 1>>)) ELSE None)),
                    Append(calls, t.call))

\* A variant that falls back to the original upload whatever the probed PAR.
scenes_fallback_always(par, n) == [exc |-> NoExc, path |-> INPUT]

\* What the except RuntimeError clause around normalize_video_par does.
scenes_fallback(par, n) ==
    IF par # None /\ par # <<1, 1>>
    THEN [exc |-> Exc("HTTPException", 500,
                    <<"VideoNormalize failed, non-square pixels detected (PAR ",
                      ParStr(par), "). Normalization error: ">>
                    \o n.exc.msg),
          path |-> ""]
    ELSE [exc |-> NoExc, path |-> INPUT]

\* The list of (start_tc, end_tc) pairs detect_scenes_pyscene returned.
SceneList(scene_list) == Call("timecode", "scene_list", <<>>, scene_list)

scenes_body(p, up, env) ==
    LET log0 == <<ReadUpload, WriteFile(INPUT)>>
        duration == get_video_duration(up, env.pr[1])
        par == get_video_par(up, env.pr[2])
        log2 == log0 \o <<Probe("duration", INPUT, env.pr[1]), Probe("par", INPUT, env.pr[2])>>
        n == normalize_video_par(up, INPUT, env.pr[3], env.enc[1])
        log3 == log2 \o n.calls
        fb == IF n.exc.type = "RuntimeError" THEN scenes_fallback(par, n)
              ELSE [exc |-> n.exc, path |-> "normalized_video.mp4"]
    IN  IF fb.exc # NoExc THEN Raised(fb.exc, log3)
        ELSE
        LET scene_video_path == fb.path
            scene_file == IF scene_video_path = INPUT THEN Some(up) ELSE n.out
            det == IF scene_file = None THEN "error" ELSE env.det
            log4 == Append(log3, Call("scenedetect", "detect",
                        <<scene_video_path, p.threshold, p.min_scene_len * 30>>, det))
        IN  IF det # "ok" THEN Raised(OtherError("scene detection failed"), log4)
            ELSE
            LET l == ScenesLoop(env.scenes, 1, p.extract_thumbnails, env.th, <<>>, <<>>)
                log5 == Append(log4, SceneList(env.scenes)) \o l.calls
            IN  IF l.exc # NoExc THEN Raised(l.exc, log5)
                ELSE Returned(Json([success |-> TRUE, scenes |-> l.scenes,
                                    total_scenes |-> Len(l.scenes),
                                    video_duration |-> duration, error |-> ""]), log5)

detect_scenes(p, up, env) == ExceptClauses(scenes_body(p, up, env), "Scene detection error: ")

(***************************************************************************)
(* The requests the model draws.  full selects the whole bounded input     *)
(* space; otherwise one accepted and one rejected request per endpoint.    *)
(***************************************************************************)
DurVals == {None} \cup {Some(d) : d \in 0..MaxTime}
DimVals == {None} \cup {<<w, 2>> : w \in 0..(MaxWidth + 1)}

TrimParams(full) ==
    IF full THEN [start_time : (-1)..(MaxTime - 1), end_time : 0..(MaxTime + 1)]
    ELSE [start_time : {0}, end_time : {0, 2}]
TrimUploads(full) ==
    {File(1, d, <<2, 2>>, "1:1", TRUE) : d \in IF full THEN DurVals ELSE {Some(1)}}

WidthParams(full) ==
    IF full THEN [min_width : 0..MaxWidth, target_width : 0..MaxWidth]
    ELSE [min_width : {0, 2}, target_width : {2}]
ResizeUploads(full) ==
    {File(1, Some(2), d, "1:1", TRUE) : d \in IF full THEN DimVals ELSE {<<1, 2>>, <<2, 2>>}}
NormalizeUploads(full) ==
    {File(1, Some(2), d, sar, TRUE) :
        d \in IF full THEN DimVals ELSE {<<1, 2>>},
        sar \in IF full THEN {"1:1", "4:3", "2:1", "x:y"} ELSE {"4:3"}}

ExtendParams(full) ==
    IF full THEN [target_duration : 0..(MaxTime + 1)] ELSE [target_duration : {0, 2}]
ExtendUploads(full) ==
    IF full THEN {File(1, d, dims, "1:1", a) :
                    d \in DurVals, dims \in {None, <<2, 2>>}, a \in BOOLEAN}
    ELSE {File(1, Some(1), <<2, 2>>, "1:1", TRUE)}

FramesParams(full) ==
    IF full THEN [interval_sec : 0..2,
                  max_frames : {0, 1, 2, MaxFramesLimit, MaxFramesLimit + 1}]
    ELSE [interval_sec : {0, 1}, max_frames : {2}]
RangeParams(full) ==
    IF full THEN [start_time : (-1)..(MaxTime - 1), end_time : 0..(MaxTime + 1),
                  max_frames : {0, 1, 2, MaxRangeFramesLimit, MaxRangeFramesLimit + 1}]
    ELSE [start_time : {0}, end_time : {0, 2}, max_frames : {2}]
FramesUploads(full) ==
    {File(1, d, <<2, 2>>, "1:1", TRUE) : d \in IF full THEN DurVals ELSE {Some(1)}}

ScenesParams(full) ==
    IF full THEN [threshold : {0, 27}, min_scene_len : {0, 1}, extract_thumbnails : BOOLEAN]
    ELSE [threshold : {0, 27}, min_scene_len : {1}, extract_thumbnails : {TRUE}]
ScenesUploads(full) ==
    {File(1, Some(2), <<2, 2>>, sar, TRUE) :
        sar \in IF full THEN {"N/A", "1:1", "4:3", "1:1:1"} ELSE {"4:3"}}

\* Upload lists of /concat: every list of up to MaxShortList uploads, and
\* lists of MaxConcat and MaxConcat + 1 uploads.
ConcatUpload(id) == File(id, Some(1), <<2, 2>>, "1:1", TRUE)
ConcatUploads(full) ==
    IF full
    THEN UNION {[1..n -> {ConcatUpload(1), ConcatUpload(2)}] : n \in 0..MaxShortList}
         \cup {[i \in 1..n |-> ConcatUpload(1 + (i % 2))] : n \in {MaxConcat, MaxConcat + 1}}
    ELSE {[i \in 1..n |-> ConcatUpload(1 + (i % 2))] : n \in {1, 2}}

(***************************************************************************)
(* The outcomes the model draws for the external invocations of a request. *)
(***************************************************************************)
\* frames is the set of indices of the numbered files the tool leaves: any
\* set of at most max_frames indices up to MaxProduced, gaps included.
FramesEnvs(full, p) ==
    {[pr |-> e.pr, enc |-> e.enc, frames |-> fs] :
        e \in {x \in [pr : [1..1 -> ProbeOutcomes], enc : [1..1 -> ExtractOutcomes]] :
                    /\ Timeouts(x) <= MaxTimeouts
                    /\ full \/ x.pr[1] = "ok"},
        fs \in IF full
               THEN {x \in SUBSET (1..MaxProduced) : Cardinality(x) <= Max2(p.max_frames, 0)}
               ELSE {{1}}}

Scene(a, b) == [start |-> a, end |-> b, start_frame |-> 30 * a, end_frame |-> 30 * b]
SceneLists == {[i \in 1..n |-> Scene(i - 1, 2 * i - 1)] : n \in 0..MaxScenes}

ThumbTimeouts(th, n) == Cardinality({i \in 1..n : th[i] = "timeout"})

ScenesEnvs(full) ==
    {[pr |-> e.pr, enc |-> e.enc, det |-> det, scenes |-> sl, th |-> th] :
        e \in EnvsOf(full, 3, 1), det \in IF full THEN {"ok", "error"} ELSE {"ok"},
        sl \in IF full THEN SceneLists ELSE {[i \in 1..1 |-> Scene(0, 1)]},
        th \in IF full THEN [1..MaxScenes -> ThumbOutcomes]
               ELSE {[i \in 1..MaxScenes |-> "ok"]}}

ScenesEnvOk(env) ==
    /\ Timeouts(env) + ThumbTimeouts(env.th, Len(env.scenes)) <= MaxTimeouts
    /\ \A i \in 1..MaxScenes : i > Len(env.scenes) => env.th[i] = "ok"

(***************************************************************************)
(* The service.  reqs[s] is the request a worker slot serves: idle, or     *)
(* suspended at await video.read() inside its temporary directory.  dirs   *)
(* is the set of temporary directories that exist.  last is the request    *)
(* that has completed and whose response is being sent (what it was given, *)
(* its response and its log), NoRequest when none is; a handler is entered *)
(* once the response before it is out.                                     *)
(***************************************************************************)
\* saved counts the uploads /concat has written to its directory so far.
Idle == [pc |-> "idle", ep |-> "", p |-> <<>>, up |-> <<>>, dir |-> 0, saved |-> 0]
Reading(ep, p, up, d) ==
    [pc |-> "reading", ep |-> ep, p |-> p, up |-> up, dir |-> d, saved |-> 0]
Done(ep, p, up, d, out) ==
    [ep |-> ep, p |-> p, up |-> up, dir |-> d, resp |-> out.resp, log |-> out.log]
NoRequest == Done("", <<>>, <<>>, 0, [resp |-> ErrorResp(0, <<>>), log |-> <<>>])

\* tempfile.TemporaryDirectory(): a directory that did not exist.
TemporaryDirectory(existing) ==
    CHOOSE d \in 1..(Cardinality(existing) + 1) : d \notin existing
\* The names it may give to a new directory.
FreshNames(existing) == {d \in 1..(Cardinality(existing) + 2) : d \notin existing}

\* A variant that removes the directory only when the block ends in a 200
\* response.
ExitDirectory_on200(existing, d, out) ==
    IF out.resp.status = 200 THEN existing \ {d} ELSE existing

\* Leaving the with block, by return or by exception, removes the directory.
ExitDirectory(existing, d, out) == existing \ {d}

\* The HTTPException(400) raised before the try block.
Reject(ep, p, up, msg) ==
    /\ last' = Done(ep, p, up, 0, [resp |-> ErrorResp(400, <<msg>>), log |-> <<>>])
    /\ UNCHANGED <<reqs, dirs, scrapperVars, parVars, traceVars, configVars>>

Enter(s, ep, p, up) ==
    LET d == TemporaryDirectory(dirs)
    IN  /\ reqs' = [reqs EXCEPT ![s] = Reading(ep, p, up, d)]
        /\ dirs' = dirs \cup {d}
        /\ last' = NoRequest
        /\ UNCHANGED <<scrapperVars, parVars, traceVars, configVars>>

\* A new request takes the first free slot.
FirstFree(s) ==
    /\ reqs[s].pc = "idle"
    /\ \A t \in DOMAIN reqs : t < s => reqs[t].pc # "idle"

Begin(s, ep, p, up, msg) ==
    /\ FirstFree(s)
    /\ last = NoRequest
    /\ IF msg # "" THEN Reject(ep, p, up, msg) ELSE Enter(s, ep, p, up)

Finish(s, out) ==
    /\ last = NoRequest
    /\ last' = Done(reqs[s].ep, reqs[s].p, reqs[s].up, reqs[s].dir, out)
    /\ dirs' = ExitDirectory(dirs, reqs[s].dir, out)
    /\ reqs' = [reqs EXCEPT ![s] = Idle]
    /\ UNCHANGED <<scrapperVars, parVars, traceVars, configVars>>

At(s, ep) == reqs[s].pc = "reading" /\ reqs[s].ep = ep

\* /concat awaits video.read() once per upload: resumed at the read of an
\* upload that is not the last, it writes that upload to video_{i:03d}.mp4
\* and waits at the read of the next.
SaveNext(s) ==
    /\ reqs' = [reqs EXCEPT ![s].saved = @ + 1]
    /\ UNCHANGED <<dirs, last, scrapperVars, parVars, traceVars, configVars>>

\* The response of the completed request has been sent.
Respond ==
    /\ last # NoRequest
    /\ last' = NoRequest
    /\ UNCHANGED <<reqs, dirs, scrapperVars, parVars, traceVars, configVars>>

TrimRequest(s, full) ==
    \/ \E p \in TrimParams(full), up \in TrimUploads(full) :
            Begin(s, "trim", p, up, trim_validate(p))
    \/ /\ At(s, "trim")
       /\ \E env \in EnvsOf(full, 2, 1) : Finish(s, trim_video(reqs[s].p, reqs[s].up, env))

ResizeRequest(s, full) ==
    \/ \E p \in WidthParams(full), up \in ResizeUploads(full) :
            Begin(s, "resize", p, up, width_validate(p))
    \/ /\ At(s, "resize")
       /\ \E env \in EnvsOf(full, 3, 1) : Finish(s, resize_video(reqs[s].p, reqs[s].up, env))

NormalizeRequest(s, full) ==
    \/ \E p \in WidthParams(full), up \in NormalizeUploads(full) :
            Begin(s, "normalize", p, up, width_validate(p))
    \/ /\ At(s, "normalize")
       /\ \E env \in EnvsOf(full, 6, 2) : Finish(s, normalize_video(reqs[s].p, reqs[s].up, env))

ExtendRequest(s, full) ==
    \/ \E p \in ExtendParams(full), up \in ExtendUploads(full) :
            Begin(s, "extend-duration", p, up, extend_validate(p))
    \/ /\ At(s, "extend-duration")
       /\ \E env \in EnvsOf(full, 5, 1) : Finish(s, extend_duration(reqs[s].p, reqs[s].up, env))

ConcatRequest(s, full) ==
    \/ \E videos \in ConcatUploads(full) :
            Begin(s, "concat", <<>>, videos, concat_validate(videos))
    \/ /\ At(s, "concat")
       /\ reqs[s].saved + 1 < Len(reqs[s].up)
       /\ SaveNext(s)
    \/ /\ At(s, "concat")
       /\ reqs[s].saved + 1 = Len(reqs[s].up)
       /\ \E env \in EnvsOf(full, 1, 1) : Finish(s, concat_videos(reqs[s].up, env))

FramesRequest(s, full) ==
    \/ \E p \in FramesParams(full), up \in FramesUploads(full) :
            Begin(s, "extract-frames", p, up, frames_validate(p))
    \/ /\ At(s, "extract-frames")
       /\ \E env \in FramesEnvs(full, reqs[s].p) :
            Finish(s, extract_frames(reqs[s].p, reqs[s].up, env))

\* No await: the handler runs from its first line to its last in one step.
FramesFromBytesRequest(s, full) ==
    \E p \in FramesParams(full), up \in FramesUploads(full) :
        /\ FirstFree(s)
        /\ last = NoRequest
        /\ IF frames_validate(p) # ""
           THEN Reject("extract-frames-from-bytes", p, up, frames_validate(p))
           ELSE \E env \in FramesEnvs(full, p) :
                LET d == TemporaryDirectory(dirs)
                    out == extract_frames_from_bytes(p, up, env)
                IN  /\ last' = Done("extract-frames-from-bytes", p, up, d, out)
                    /\ dirs' = ExitDirectory(dirs \cup {d}, d, out)
                    /\ UNCHANGED <<reqs, scrapperVars, parVars, traceVars, configVars>>

RangeRequest(s, full) ==
    \/ \E p \in RangeParams(full), up \in FramesUploads(full) :
            Begin(s, "extract-frames-range", p, up, range_validate(p))
    \/ /\ At(s, "extract-frames-range")
       /\ \E env \in FramesEnvs(full, reqs[s].p) :
            Finish(s, extract_frames_range(reqs[s].p, reqs[s].up, env))

ScenesRequest(s, full) ==
    \/ \E p \in ScenesParams(full), up \in ScenesUploads(full) :
            Begin(s, "detect-scenes", p, up, scenes_validate(p))
    \/ /\ At(s, "detect-scenes")
       /\ \E env \in ScenesEnvs(full) :
            /\ ScenesEnvOk(env)
            /\ Finish(s, detect_scenes(reqs[s].p, reqs[s].up, env))

VideoTool(s, full) ==
    \/ TrimRequest(s, full)
    \/ ResizeRequest(s, full)
    \/ NormalizeRequest(s, full)
    \/ ExtendRequest(s, full)
    \/ ConcatRequest(s, full)
    \/ FramesRequest(s, full)
    \/ FramesFromBytesRequest(s, full)
    \/ RangeRequest(s, full)
    \/ ScenesRequest(s, full)

(***************************************************************************)
(* The reel fetcher (apps/scrapper/main.py).  Its handlers are async def   *)
(* functions without any await: once the event loop has entered one it     *)
(* runs to its response, get_loader() included.  A client (an Instaloader  *)
(* object) is a record; id tells the objects apart.                        *)
(***************************************************************************)
MaxCookies == 1

Instaloader(id) == [id |-> id, username |-> "", jar |-> {}, dirname_pattern |-> 0]
\* loader.context.is_logged_in
is_logged_in(l) == l.username # ""

\* A cookie dict in Playwright format; a key that is missing is "" (name,
\* value) or None (domain, path).
Cookie(name, value, domain, path) ==
    [name |-> name, value |-> value, domain |-> domain, path |-> path]
Cookies ==
    {Cookie(n, v, d, None) : n \in {"", "sessionid"}, v \in {"", "a"},
                             d \in {None, Some("example.com")}}
CookieLists == UNION {[1..n -> Cookies] : n \in 0..MaxCookies}

\* session.cookies.set(name, value, domain=domain, path=path)
jar_set(jar, name, value, domain, path) ==
    {c \in jar : ~(c.name = name /\ c.domain = domain /\ c.path = path)}
    \cup {[name |-> name, value |-> value, domain |-> domain, path |-> path]}

\* The log entry of session.cookies.set(...).
CookieSet(name, value, domain, path) ==
    Call("session", "cookies.set", <<name, value, domain, path>>, "ok")

\* A variant that sets every cookie that has a name, whatever its value.
RECURSIVE ApplyFrom_named(_, _, _, _)
ApplyFrom_named(jar, cookies, i, applied) ==
    IF i > Len(cookies) THEN [jar |-> jar, applied |-> applied, calls |-> <<>>]
    ELSE
    LET cookie == cookies[i]
        domain == IF cookie.domain = None THEN ".instagram.com" ELSE Val(cookie.domain)
        path == IF cookie.path = None THEN "/" ELSE Val(cookie.path)
    IN  IF cookie.name # ""
        THEN LET r == ApplyFrom_named(jar_set(jar, cookie.name, cookie.value, domain, path),
                                      cookies, i + 1, applied + 1)
             IN  [r EXCEPT !.calls = <<CookieSet(cookie.name, cookie.value, domain, path)>> \o @]
        ELSE ApplyFrom_named(jar, cookies, i + 1, applied)

RECURSIVE ApplyFrom(_, _, _, _)
\* for cookie in cookies: set it when it has a name and a value.  Yields the
\* jar, the count and the set calls made from cookie i on.
ApplyFrom(jar, cookies, i, applied) ==
    IF i > Len(cookies) THEN [jar |-> jar, applied |-> applied, calls |-> <<>>]
    ELSE
    LET cookie == cookies[i]
        domain == IF cookie.domain = None THEN ".instagram.com" ELSE Val(cookie.domain)
        path == IF cookie.path = None THEN "/" ELSE Val(cookie.path)
    IN  IF cookie.name # "" /\ cookie.value # ""
        THEN LET r == ApplyFrom(jar_set(jar, cookie.name, cookie.value, domain, path),
                                cookies, i + 1, applied + 1)
             IN  [r EXCEPT !.calls = <<CookieSet(cookie.name, cookie.value, domain, path)>> \o @]
        ELSE ApplyFrom(jar, cookies, i + 1, applied)

apply_cookies_to_loader(l, cookies) ==
    IF cookies = <<>> THEN [l |-> l, ok |-> FALSE, calls |-> <<>>]
    ELSE LET a == ApplyFrom(l.jar, cookies, 1, 0)
         IN  [l |-> [l EXCEPT !.jar = a.jar], ok |-> a.applied > 0, calls |-> a.calls]

\* fetch is what the companion server does: it answers 200 with a cookie
\* list, answers another status, or the request fails.
FetchOutcomes ==
    {[status |-> 200, cookies |-> cs] : cs \in CookieLists}
    \cup {[status |-> 500, cookies |-> <<>>], [status |-> 0, cookies |-> <<>>]}
fetch_cookies_from_server(fetch) ==
    IF fetch.status = 200 THEN fetch.cookies ELSE <<>>

\* What get_loader meets when it builds the client: the configuration the
\* process was started with and the outcomes of the session load, the login
\* and the cookie fetch.
InitEnvs ==
    [session_file : BOOLEAN, user : {"", "u"}, pass : {"", "p"},
     load : {"ok", "fail"}, login : {"ok", "fail"}, save : {"ok", "fail"},
     fetch : FetchOutcomes]
NoInitEnv ==
    [session_file |-> FALSE, user |-> "", pass |-> "", load |-> "fail",
     login |-> "fail", save |-> "fail", fetch |-> [status |-> 0, cookies |-> <<>>]]
\* Only a call that builds the client reads the environment.
InitEnvsFor(ld) == IF ld = None THEN InitEnvs ELSE {NoInitEnv}

\* Whether the request to the companion server was answered with 200.
FetchOut(fetch) == IF fetch.status = 200 THEN "ok" ELSE "fail"

\* One step of the initialization: the call, whether it returned ("ok") or
\* raised / fetched nothing ("fail"), and is_logged_in and the cookie jar of
\* the client after it.
Step(op, out, l) ==
    [op |-> op, out |-> out, logged_in |-> is_logged_in(l), jar |-> l.jar]

\* A variant that fetches the server's cookies whether or not the client is
\* logged in.
build_loader_cookies(n, env) ==
    LET l0 == Instaloader(n + 1)
        try_load == env.session_file /\ env.user # ""
        l1 == IF try_load /\ env.load = "ok" THEN [l0 EXCEPT !.username = env.user] ELSE l0
        s1 == IF try_load THEN <<Step("load_session_from_file", env.load, l1)>> ELSE <<>>
        try_login == env.user # "" /\ env.pass # "" /\ ~is_logged_in(l1)
        l2 == IF try_login /\ env.login = "ok" THEN [l1 EXCEPT !.username = env.user] ELSE l1
        s2 == IF ~try_login THEN <<>>
              ELSE IF env.login = "ok"
              THEN <<Step("login", "ok", l2), Step("save_session_to_file", env.save, l2)>>
              ELSE <<Step("login", "fail", l2)>>
        cookies == fetch_cookies_from_server(env.fetch)
        l3 == IF cookies # <<>> THEN apply_cookies_to_loader(l2, cookies).l ELSE l2
        s3 == IF cookies # <<>>
              THEN <<Step("fetch_cookies_from_server", "ok", l2),
                     Step("apply_cookies_to_loader", "ok", l3)>>
              ELSE <<Step("fetch_cookies_from_server", FetchOut(env.fetch), l2)>>
    IN  [loader |-> Some(l3), steps |-> <<Step("Instaloader", "ok", l0)>> \o s1 \o s2 \o s3]

\* The body of `if loader is None:`; n clients have been built before.  The
\* exceptions of the session load, the login and the saving of the session are
\* caught and printed; fetch_cookies_from_server returns [] when it fails.
build_loader(n, env) ==
    LET l0 == Instaloader(n + 1)
        try_load == env.session_file /\ env.user # ""
        l1 == IF try_load /\ env.load = "ok" THEN [l0 EXCEPT !.username = env.user] ELSE l0
        s1 == IF try_load THEN <<Step("load_session_from_file", env.load, l1)>> ELSE <<>>
        try_login == env.user # "" /\ env.pass # "" /\ ~is_logged_in(l1)
        l2 == IF try_login /\ env.login = "ok" THEN [l1 EXCEPT !.username = env.user] ELSE l1
        s2 == IF ~try_login THEN <<>>
              ELSE IF env.login = "ok"
              THEN <<Step("login", "ok", l2), Step("save_session_to_file", env.save, l2)>>
              ELSE <<Step("login", "fail", l2)>>
        try_cookies == ~is_logged_in(l2)
        cookies == fetch_cookies_from_server(env.fetch)
        l3 == IF try_cookies /\ cookies # <<>>
              THEN apply_cookies_to_loader(l2, cookies).l ELSE l2
        s3 == IF ~try_cookies THEN <<>>
              ELSE IF cookies # <<>>
              THEN <<Step("fetch_cookies_from_server", "ok", l2),
                     Step("apply_cookies_to_loader", "ok", l3)>>
              ELSE <<Step("fetch_cookies_from_server", FetchOut(env.fetch), l2)>>
    IN  [loader |-> Some(l3), steps |-> <<Step("Instaloader", "ok", l0)>> \o s1 \o s2 \o s3]

\* A variant without the `if loader is None` test: every call builds a client.
get_loader_always(ld, n, env) == build_loader(n, env)

\* get_loader(): the new value of the global (which is what it returns) and
\* the initialization steps this call ran.
get_loader(ld, n, env) ==
    IF ld = None THEN build_loader(n, env)
    ELSE [loader |-> ld, steps |-> <<>>]

(***************************************************************************)
(* The handlers.  Each is an operator of the global it finds (ld), the     *)
(* number of clients built so far (n), the request and the outcomes of the *)
(* library calls; it yields the get_loader result (g), the global it       *)
(* leaves, the directory it used (0: none) and the response with the log.  *)
(***************************************************************************)
Handled(g, l, d, resp, log) ==
    [g |-> g, loader |-> Some(l), dir |-> d, out |-> [resp |-> resp, log |-> log]]

Lib(op, args, out) == Call("instaloader", op, args, out)

StatusResponse(l) ==
    [status |-> "ok", logged_in |-> is_logged_in(l),
     username |-> IF is_logged_in(l) THEN Some(l.username) ELSE None]

status(ld, n, env) ==
    LET g == get_loader(ld, n, env.init)
        l == Val(g.loader)
    IN  Handled(g, l, 0, Json(StatusResponse(l)), <<>>)

\* POST /login: l.login and l.save_session_to_file are in one try block, and
\* every exception becomes a 400 with its message; a failure of the saving
\* leaves the client logged in.
login(ld, n, request, env) ==
    LET g == get_loader(ld, n, env.init)
        l == Val(g.loader)
        l2 == [l EXCEPT !.username = request.username]
    IN  IF env.login # "ok"
        THEN Handled(g, l, 0, ErrorResp(400, <<env.msg>>),
                     <<Lib("login", <<request.username>>, "fail")>>)
        ELSE IF env.save # "ok"
        THEN Handled(g, l2, 0, ErrorResp(400, <<env.msg>>),
                     <<Lib("login", <<request.username>>, "ok"),
                       Lib("save_session_to_file", <<>>, "fail")>>)
        ELSE Handled(g, l2, 0,
                     Json([success |-> TRUE, message |-> <<"Logged in as ", request.username>>]),
                     <<Lib("login", <<request.username>>, "ok"),
                       Lib("save_session_to_file", <<>>, "ok")>>)

load_cookies(ld, n, request, env) ==
    LET g == get_loader(ld, n, env.init)
        a == apply_cookies_to_loader(Val(g.loader), request.cookies)
    IN  IF a.ok
        THEN Handled(g, a.l, 0, Json([success |-> TRUE, applied |-> Len(request.cookies)]),
                     a.calls)
        ELSE Handled(g, a.l, 0, ErrorResp(400, <<"Failed to apply cookies">>), a.calls)

\* The list fetch_cookies_from_server() returned, as a log entry.
Fetched(cookies) == Call("server", "fetch_cookies_from_server", <<>>, cookies)

\* `cookies and apply_cookies_to_loader(l, cookies)`: nothing is applied when
\* the list is empty.
refresh_cookies(ld, n, env) ==
    LET g == get_loader(ld, n, env.init)
        cookies == fetch_cookies_from_server(env.fetch)
        a == apply_cookies_to_loader(Val(g.loader), cookies)
        log == <<Fetched(cookies)>> \o a.calls
    IN  IF cookies # <<>> /\ a.ok
        THEN Handled(g, a.l, 0, Json([success |-> TRUE, applied |-> Len(cookies)]), log)
        ELSE Handled(g, a.l, 0,
                     ErrorResp(400, <<"No cookies found or failed to apply">>), log)

\* The exceptions of the library calls: an InstaloaderException or any other
\* Exception, with the message str(e) gives (which may be empty).
LibOutcomes == {"ok", "library", "other"}
LibMessages == {"", "Post not found"}
LibExc(kind, msg) ==
    IF kind = "library" THEN Exc("InstaloaderException", 0, <<msg>>)
    ELSE Exc("Exception", 0, <<msg>>)

\* The except clauses of /metadata and /download: the error field.
ErrorField(e) ==
    IF e.type = "InstaloaderException" THEN e.msg
    ELSE <<"Unexpected error: ">> \o e.msg

\* The text of an error field: empty when every piece of it is.
IsEmptyStr(pieces) == \A i \in DOMAIN pieces : pieces[i] = ""

\* A variant of the except clauses that reports every exception by its own
\* message only.
FailureResponse_bare(shortcode, e) ==
    [success |-> FALSE, shortcode |-> shortcode, error |-> e.msg]

\* MetadataResponse / DownloadResponse(success=False, shortcode=..., error=...)
FailureResponse(shortcode, e) ==
    [success |-> FALSE, shortcode |-> shortcode, error |-> ErrorField(e)]

\* A post as the library presents it; an attribute that is None or missing
\* is None.
\* The value of an attribute of a post: absent (None), an integer, or a text.
Raw(type, int, text) == [type |-> type, int |-> int, text |-> text]
Absent == Raw("none", 0, "")
IntVal(v) == Raw("int", v, "")
TextVal(t) == Raw("str", 0, t)

\* getattr(post, name, None), as a log entry.
GetAttr(post, name) == Call("post", "getattr", <<name>>, post[name])

\* safe_int: None for None, int(value), and None when int() raises.
safe_int(value) ==
    CASE value.type = "none" -> None
      [] value.type = "int" -> Some(value.int)
      [] OTHER -> None

Post(play_count, video_view_count) ==
    [caption |-> Some("text"), likes |-> IntVal(3), comments |-> IntVal(1),
     play_count |-> play_count, video_view_count |-> video_view_count,
     owner_username |-> Some("author"), url |-> Some("https://thumb"),
     video_duration |-> IntVal(12)]
Posts ==
    {Post(pc, vc) : pc \in {Absent, IntVal(0), IntVal(5), TextVal("n/a")},
                    vc \in {Absent, IntVal(7), TextVal("n/a")}}

\* A variant that tests the truth value of the play count: 0 counts as absent.
view_count_truthy(post) ==
    LET play_count == safe_int(post.play_count)
        video_view_count == safe_int(post.video_view_count)
    IN  IF Truthy(play_count) THEN play_count ELSE video_view_count

\* view_count = play_count if play_count is not None else video_view_count
view_count(post) ==
    LET play_count == safe_int(post.play_count)
        video_view_count == safe_int(post.video_view_count)
    IN  IF play_count # None THEN play_count ELSE video_view_count

MetadataResponse(shortcode, post) ==
    [success |-> TRUE, shortcode |-> shortcode, caption |-> post.caption,
     commentCount |-> safe_int(post.comments), likeCount |-> safe_int(post.likes),
     viewCount |-> view_count(post), author |-> post.owner_username,
     thumbnailUrl |-> post.url, duration |-> safe_int(post.video_duration),
     error |-> <<>>]

reel_metadata(ld, n, request, env) ==
    LET g == get_loader(ld, n, env.init)
        l == Val(g.loader)
        log == <<Lib("Post.from_shortcode", <<request.shortcode>>, env.lookup)>>
    IN  IF env.lookup # "ok"
        THEN Handled(g, l, 0,
                     Json(FailureResponse(request.shortcode, LibExc(env.lookup, env.msg))), log)
        ELSE Handled(g, l, 0, Json(MetadataResponse(request.shortcode, env.post)),
                     log \o <<GetAttr(env.post, "play_count"),
                              GetAttr(env.post, "video_view_count")>>)

\* How download_post ends: it returns, or it raises.
DownloadOutcomes == {"ok", "library", "other"}
\* A file download_post left in the directory.
Downloaded(name, ext) == [name |-> name, ext |-> ext, bytes |-> Bytes(name, <<ext>>)]
ReelFiles == {Downloaded("reel", "mp4"), Downloaded("reel_2", "mp4"), Downloaded("reel", "jpg")}
\* The files of the directory in the order the file system lists them.
Listings ==
    {l \in UNION {[1..n -> ReelFiles] : n \in 0..MaxFiles} :
        \A a, b \in DOMAIN l : a # b => l[a] # l[b]}

\* A variant that matches every file of the directory.
rglob_any(files, ext) == files

\* Path(tmpdir).rglob("*.<ext>")
rglob(files, ext) == SelectSeq(files, LAMBDA f : f.ext = ext)

\* The files download_post writes for the post of a shortcode: files gives
\* their names and the order in which the file system lists them.
PostFiles(shortcode, files) ==
    [i \in DOMAIN files |->
        [files[i] EXCEPT !.bytes = Bytes(<<shortcode, files[i].name>>, <<files[i].ext>>)]]

\* A variant that sets the download directory of the client only while it
\* has none.
set_dirname_pattern_once(l, tmpdir) ==
    IF l.dirname_pattern = 0 THEN [l EXCEPT !.dirname_pattern = tmpdir] ELSE l

\* l.dirname_pattern = tmpdir
set_dirname_pattern(l, tmpdir) == [l EXCEPT !.dirname_pattern = tmpdir]

\* tmpdir is the directory tempfile.TemporaryDirectory() creates.  The
\* library writes into the directory the client's dirname_pattern names when
\* download_post runs; the handler searches tmpdir.
download_reel(ld, n, request, env, tmpdir) ==
    LET g == get_loader(ld, n, env.init)
        l == Val(g.loader)
        sc == request.shortcode
        log1 == <<Lib("Post.from_shortcode", <<sc>>, env.lookup)>>
    IN  IF env.lookup # "ok"
        THEN Handled(g, l, 0, Json(FailureResponse(sc, LibExc(env.lookup, env.msg))), log1)
        ELSE
        LET l2 == set_dirname_pattern(l, tmpdir)
            target == l2.dirname_pattern
            written == PostFiles(sc, env.files)
            log2 == Append(log1, Lib("download_post", <<sc, target, written>>, env.download))
        IN  IF env.download # "ok"
            THEN Handled(g, l2, tmpdir,
                         Json(FailureResponse(sc, LibExc(env.download, env.msg))), log2)
            ELSE
            LET listed == IF target = tmpdir THEN written ELSE <<>>
                found == rglob(listed, "mp4")
                log3 == Append(log2, Call("path", "rglob", <<tmpdir, "mp4">>, listed))
            IN  IF found = <<>>
                THEN Handled(g, l2, tmpdir,
                             Json([success |-> FALSE, shortcode |-> sc,
                                   error |-> <<"No video file found after download">>]),
                             log3)
                ELSE Handled(g, l2, tmpdir,
                             Resp(200, <<>>,
                                  ("X-Shortcode" :> sc) @@ ("X-Filename" :> <<sc, ".mp4">>)
                                  @@ ("Content-Type" :> "video/mp4"),
                                  Some(found[1].bytes), <<>>), log3)

(***************************************************************************)
(* The reel fetcher as a service: requests arrive and wait (pending) until *)
(* the event loop runs their handler, which it does from the first line to *)
(* the response.  The lifespan startup calls get_loader() once.            *)
(***************************************************************************)
Shortcodes == {"abc", "xyz"}
DownloadRequests == [shortcode : Shortcodes]
LoginRequests == [username : {"v"}, password : {"pw"}]

\* The outcomes of the library calls of /metadata: a post, or an exception.
LookupEnvs ==
    {[lookup |-> "ok", msg |-> "", post |-> post] : post \in Posts}
    \cup {[lookup |-> k, msg |-> m, post |-> Post(Absent, Absent)] :
            k \in {"library", "other"}, m \in LibMessages}
\* Those of /download: the lookup, then download_post.
DownloadEnvs ==
    {[lookup |-> k, msg |-> m, download |-> "ok", files |-> <<>>] :
            k \in {"library", "other"}, m \in LibMessages}
    \cup {[lookup |-> "ok", msg |-> m, download |-> d, files |-> <<>>] :
            d \in {"library", "other"}, m \in LibMessages}
    \cup {[lookup |-> "ok", msg |-> "", download |-> "ok", files |-> fs] : fs \in Listings}
WithInit(e, init) == [x \in DOMAIN e \cup {"init"} |-> IF x = "init" THEN init ELSE e[x]]

Arrive ==
    /\ pending < NSlots
    /\ pending' = pending + 1
    /\ UNCHANGED <<reqs, dirs, last, loader, inits, handles, started, chain, traceVars, configVars>>

\* What a call of get_loader leaves in the record of initializations and of
\* returned clients.
Called(g) ==
    /\ inits' = IF g.steps = <<>> THEN inits ELSE Append(inits, g.steps)
    /\ handles' = handles \cup {Val(g.loader).id}

\* lifespan: get_loader() before the first request is served.
Startup ==
    /\ ~started
    /\ started' = TRUE
    /\ \E init \in InitEnvsFor(loader) :
            LET g == get_loader(loader, Len(inits), init)
            IN  Called(g) /\ loader' = g.loader
    /\ UNCHANGED <<reqs, dirs, last, pending, chain, traceVars, configVars>>

\* The event loop runs the handler of a waiting request to its response.
Serve(ep, request, r) ==
    /\ Called(r.g)
    /\ loader' = r.loader
    /\ last' = Done(ep, request, <<>>, r.dir, r.out)
    /\ dirs' = IF r.dir = 0 THEN dirs ELSE ExitDirectory(dirs \cup {r.dir}, r.dir, r.out)
    /\ UNCHANGED <<reqs, started, chain, traceVars, configVars>>

Waiting ==
    /\ pending > 0
    /\ last = NoRequest
    /\ pending' = pending - 1

StatusRequest ==
    /\ Waiting
    /\ \E init \in InitEnvsFor(loader) :
            Serve("status", <<>>, status(loader, Len(inits), [init |-> init]))

LoginRequest ==
    /\ Waiting
    /\ \E init \in InitEnvsFor(loader), request \in LoginRequests,
          oc \in {"ok", "fail"}, sv \in {"ok", "fail"}, m \in LibMessages :
            Serve("login", request,
                  login(loader, Len(inits), request,
                        [init |-> init, login |-> oc, save |-> sv, msg |-> m]))

\* POST /cookies with a cookie list of lists, in a process whose client, if it
\* is yet to be built, meets one of envs.
LoadCookies(envs, lists) ==
    /\ Waiting
    /\ \E init \in envs, cookies \in lists :
            Serve("cookies", [cookies |-> cookies],
                  load_cookies(loader, Len(inits), [cookies |-> cookies], [init |-> init]))

CookiesRequest == LoadCookies(InitEnvsFor(loader), CookieLists)

\* POST /cookies/refresh, the companion server answering with one of fetches.
RefreshCookies(envs, fetches) ==
    /\ Waiting
    /\ \E init \in envs, fetch \in fetches :
            Serve("cookies/refresh", <<>>,
                  refresh_cookies(loader, Len(inits), [init |-> init, fetch |-> fetch]))

RefreshRequest == RefreshCookies(InitEnvsFor(loader), FetchOutcomes)

MetadataRequest ==
    /\ Waiting
    /\ \E init \in InitEnvsFor(loader), request \in DownloadRequests, e \in LookupEnvs :
            Serve("metadata", request,
                  reel_metadata(loader, Len(inits), request, WithInit(e, init)))

\* In the coarse setting a download is served as it arrives.
Download(full) ==
    /\ IF full THEN Waiting ELSE last = NoRequest /\ UNCHANGED pending
    /\ \E init \in IF full THEN InitEnvsFor(loader) ELSE {NoInitEnv},
          request \in IF full THEN DownloadRequests ELSE {[shortcode |-> "abc"]},
          e \in DownloadEnvs, tmpdir \in FreshNames(dirs) :
            Serve("download", request,
                  download_reel(loader, Len(inits), request, WithInit(e, init), tmpdir))

DownloadRequest == Download(TRUE)

Scrapper ==
    \/ StatusRequest
    \/ LoginRequest
    \/ CookiesRequest
    \/ RefreshRequest
    \/ MetadataRequest
    \/ DownloadRequest

(***************************************************************************)
(* The tracing middleware of the video tool (tracing.py).  Every request   *)
(* of the service passes through TracingMiddleware.dispatch, which awaits  *)
(* the rest of the application in call_next.                               *)
(***************************************************************************)
TRACE_HEADER == "X-Trace-ID"
SPAN_HEADER == "X-Span-ID"
PARENT_HEADER == "X-Parent-Span-ID"

\* str(uuid.uuid4()) of the n-th call, and the first 16 characters of one.
Uuid4(n) == "uuid4-" \o ToString(n)
First16(u) == u \o "[:16]"

\* request.headers.get(name): None when the request has no such header.
HeaderGet(headers, name) == IF name \in DOMAIN headers THEN Some(headers[name]) ELSE None
\* The truth value of an Optional[str]: None and "" are false.
StrTruthy(o) == o # None /\ Val(o) # ""

\* current_trace_id and current_span_id of a task: both default to None.
NoContext == [trace_id |-> None, span_id |-> None]

\* A variant that keeps every incoming X-Trace-ID, the empty one too.
dispatch_enter_present(headers, ctx, drawn) ==
    LET trace_id == HeaderGet(headers, TRACE_HEADER)
        parent_span_id == HeaderGet(headers, SPAN_HEADER)
        d1 == IF trace_id # None THEN drawn ELSE drawn + 1
        tid == IF trace_id # None THEN Val(trace_id) ELSE Uuid4(d1)
        sid == First16(Uuid4(d1 + 1))
    IN  [headers |-> headers, trace_id |-> tid, span_id |-> sid,
         parent_span_id |-> parent_span_id,
         tokens |-> ctx,
         ctx |-> [trace_id |-> Some(tid), span_id |-> Some(sid)],
         drawn |-> d1 + 1]

\* dispatch from its first line to `await call_next(request)`.  ContextVar.set
\* returns a token that holds the value it replaced.
dispatch_enter(headers, ctx, drawn) ==
    LET trace_id == HeaderGet(headers, TRACE_HEADER)
        parent_span_id == HeaderGet(headers, SPAN_HEADER)
        d1 == IF StrTruthy(trace_id) THEN drawn ELSE drawn + 1
        tid == IF StrTruthy(trace_id) THEN Val(trace_id) ELSE Uuid4(d1)
        sid == First16(Uuid4(d1 + 1))
    IN  [headers |-> headers, trace_id |-> tid, span_id |-> sid,
         parent_span_id |-> parent_span_id,
         tokens |-> ctx,
         ctx |-> [trace_id |-> Some(tid), span_id |-> Some(sid)],
         drawn |-> d1 + 1]

\* The headers dispatch assigns to the response call_next returned.
TraceHeaders(fr) ==
    (TRACE_HEADER :> fr.trace_id) @@ (SPAN_HEADER :> fr.span_id)
    @@ (IF StrTruthy(fr.parent_span_id) THEN PARENT_HEADER :> Val(fr.parent_span_id)
        ELSE <<>>)

\* A variant that tags only the responses that are not errors.
dispatch_leave_okonly(fr, r) ==
    [raised |-> r.raised, exc |-> r.exc,
     resp |-> IF r.raised \/ r.resp.status >= 400 THEN r.resp
              ELSE [r.resp EXCEPT !.headers = TraceHeaders(fr) @@ @],
     ctx |-> fr.tokens]

\* dispatch from the return of call_next to its end: r is what call_next
\* returned or raised.  The headers are assigned inside the try block, after
\* call_next; the finally block resets both context variables on every path.
dispatch_leave(fr, r) ==
    [raised |-> r.raised, exc |-> r.exc,
     resp |-> IF r.raised THEN r.resp
              ELSE [r.resp EXCEPT !.headers = TraceHeaders(fr) @@ @],
     ctx |-> fr.tokens]

\* get_trace_id(), get_span_id() and get_trace_headers() in a task whose
\* context variables are ctx.
get_trace_id(ctx) == ctx.trace_id
get_span_id(ctx) == ctx.span_id
get_trace_headers(ctx) ==
    (IF StrTruthy(ctx.trace_id) THEN TRACE_HEADER :> Val(ctx.trace_id) ELSE <<>>)
    @@ (IF StrTruthy(ctx.span_id) THEN SPAN_HEADER :> Val(ctx.span_id) ELSE <<>>)

Outside == [pc |-> "outside"]
Inside(fr) == [pc |-> "call_next", frame |-> fr]
NoResult == [slot |-> 0]
NoSpans ==
    [calls |-> [s \in 1..NSlots |-> Outside], ctx |-> [s \in 1..NSlots |-> NoContext],
     drawn |-> 0, result |-> NoResult]

\* The headers a request arrives with.
RequestHeaders ==
    {t @@ sp : t \in {<<>>} \cup {TRACE_HEADER :> v : v \in {"", "trace-1"}},
               sp \in {<<>>} \cup {SPAN_HEADER :> v : v \in {"", "span-0"}}}

\* What call_next gives dispatch: the response of the application (the handler's
\* own, or the one the framework builds from an HTTPException the handler
\* raised), or an exception that no handler below turned into a response.
CallNextOutcomes ==
    {Returned(r, <<>>) :
        r \in {Json([status |-> "ok"]),
               Streaming("X-Extended" :> "false", File(1, Some(1), <<2, 2>>, "1:1", TRUE)),
               ErrorResp(400, <<"interval_sec must be positive">>),
               ErrorResp(500, <<"Unexpected error: ", "boom">>),
               ErrorResp(504, <<"Video processing timed out">>)}}
    \cup {Raised(OtherError("boom"), <<>>)}

\* A request reaches the middleware, in a task of its own.
TraceEnter ==
    \E s \in 1..NSlots, h \in RequestHeaders :
        /\ spans.result = NoResult
        /\ spans.calls[s] = Outside
        /\ \A t \in 1..(s - 1) : spans.calls[t] # Outside
        /\ spans.drawn + 2 <= MaxUuids
        /\ LET fr == dispatch_enter(h, spans.ctx[s], spans.drawn)
           IN  spans' = [spans EXCEPT !.calls[s] = Inside(fr), !.ctx[s] = fr.ctx,
                                      !.drawn = fr.drawn]
        /\ UNCHANGED <<reqs, dirs, last, scrapperVars, parVars, configVars>>

\* call_next returns or raises, and dispatch runs to its end.
TraceLeave ==
    \E s \in 1..NSlots, r \in CallNextOutcomes :
        /\ spans.result = NoResult
        /\ spans.calls[s] # Outside
        /\ LET fr == spans.calls[s].frame
               out == dispatch_leave(fr, r)
           IN  spans' = [spans EXCEPT !.calls[s] = Outside, !.ctx[s] = out.ctx,
                            !.result = [slot |-> s, frame |-> fr, given |-> r,
                                        raised |-> out.raised, exc |-> out.exc,
                                        resp |-> out.resp]]
        /\ UNCHANGED <<reqs, dirs, last, scrapperVars, parVars, configVars>>

\* The response (or the server error for the exception) has been sent.
TraceSent ==
    /\ spans.result # NoResult
    /\ spans' = [spans EXCEPT !.result = NoResult]
    /\ UNCHANGED <<reqs, dirs, last, scrapperVars, parVars, configVars>>


(***************************************************************************)
(* Spec: the video tool serving one request at a time, over the whole      *)
(* bounded input space.                                                    *)
(***************************************************************************)
Init ==
    /\ reqs = [s \in {1} |-> Idle]
    /\ dirs = {}
    /\ last = NoRequest
    /\ loader = None
    /\ inits = <<>>
    /\ handles = {}
    /\ pending = 0
    /\ started = FALSE
    /\ chain = <<>>
    /\ spans = NoSpans
    /\ JPEG_QUALITY = DefaultJpegQuality

Next == VideoTool(1, TRUE) \/ Respond

Spec == Init /\ [][Next]_vars

(***************************************************************************)
(* SpecScrapper: the reel fetcher.  Requests may be waiting when the       *)
(* startup runs, and may be served in a process whose startup never ran.   *)
(***************************************************************************)
NextScrapper == Arrive \/ Startup \/ Scrapper \/ Respond

SpecScrapper == Init /\ [][NextScrapper]_vars

(***************************************************************************)
(* SpecConc: NSlots requests of the video tool in flight at once, each     *)
(* suspended at its await, next to the downloads of the reel fetcher; the  *)
(* inputs are a few representatives of every path.                         *)
(***************************************************************************)
Slots == 1..NSlots

InitConc ==
    /\ reqs = [s \in Slots |-> Idle]
    /\ dirs = {}
    /\ last = NoRequest
    /\ loader = None
    /\ inits = <<>>
    /\ handles = {}
    /\ pending = 0
    /\ started = FALSE
    /\ chain = <<>>
    /\ spans = NoSpans
    /\ JPEG_QUALITY = DefaultJpegQuality

NextConc ==
    \/ \E s \in Slots : VideoTool(s, FALSE)
    \/ Download(FALSE)
    \/ Respond

SpecConc == InitConc /\ [][NextConc]_vars

(***************************************************************************)
(* SpecPar: normalize_video_par applied to a video, and again to what it   *)
(* wrote.  chain[i] is the i-th application: the file it read, the outcome *)
(* of its PAR probe, the PAR it got and what the run did.                  *)
(***************************************************************************)
MaxApplications == 2

ParInputs ==
    {File(1, Some(1), d, sar, TRUE) : d \in {<<2, 2>>, <<3, 2>>}, sar \in SarOutputs}

Application(f, po, oc) ==
    [source |-> f, po |-> po, par |-> get_video_par(f, po),
     run |-> normalize_video_par(f, "video.mp4", po, oc)]

NormalizeFirst ==
    /\ chain = <<>>
    /\ \E f \in ParInputs, po \in ProbeOutcomes, oc \in EncOutcomes :
            chain' = <<Application(f, po, oc)>>
    /\ UNCHANGED <<reqs, dirs, last, scrapperVars, traceVars, configVars>>

NormalizeAgain ==
    /\ chain # <<>>
    /\ Len(chain) < MaxApplications
    /\ chain[Len(chain)].run.out # None
    /\ \E po \in ProbeOutcomes, oc \in EncOutcomes :
            chain' = Append(chain, Application(Val(chain[Len(chain)].run.out), po, oc))
    /\ UNCHANGED <<reqs, dirs, last, scrapperVars, traceVars, configVars>>

NextPar == NormalizeFirst \/ NormalizeAgain

SpecPar == Init /\ [][NextPar]_vars

\* The video tool over its whole input space next to the downloads of the reel
\* fetcher, with every outcome of their library calls.
NextBoth == VideoTool(1, TRUE) \/ Download(FALSE) \/ Respond
SpecBoth == Init /\ [][NextBoth]_vars

\* The tracing middleware alone, with requests in progress at the same time.
NextTrace == TraceEnter \/ TraceLeave \/ TraceSent
SpecTrace == Init /\ [][NextTrace]_vars

\* SpecCookies: /cookies and /cookies/refresh with longer cookie lists, in
\* which a cookie that is set stands next to one that is skipped and a later
\* cookie replaces an earlier one; a client built by a request is built in a
\* process without credentials.
JarCookies ==
    {Cookie(n, v, d, None) : n \in {"", "sessionid"}, v \in {"", "a", "b"},
                             d \in {None, Some("example.com")}}
JarLists == UNION {[1..n -> JarCookies] : n \in 0..MaxJarList}
JarFetches ==
    {[status |-> 200, cookies |-> cs] : cs \in JarLists}
    \cup {[status |-> 500, cookies |-> <<>>], [status |-> 0, cookies |-> <<>>]}
JarInitEnvs ==
    IF loader # None THEN {NoInitEnv}
    ELSE {[NoInitEnv EXCEPT !.fetch = f] :
            f \in {[status |-> 0, cookies |-> <<>>],
                   [status |-> 200,
                    cookies |-> <<Cookie("sessionid", "a", None, None)>>]}}

NextCookies ==
    \/ Arrive
    \/ Startup
    \/ LoadCookies(JarInitEnvs, JarLists)
    \/ RefreshCookies(JarInitEnvs, JarFetches)
    \/ Respond

SpecCookies == Init /\ [][NextCookies]_vars

\* The endpoints that write JPEG files, in a process started with any
\* JPEG_QUALITY of 0..MaxQuality in its environment.
Qualities == 0..MaxQuality

InitQuality ==
    /\ reqs = [s \in {1} |-> Idle]
    /\ dirs = {}
    /\ last = NoRequest
    /\ loader = None
    /\ inits = <<>>
    /\ handles = {}
    /\ pending = 0
    /\ started = FALSE
    /\ chain = <<>>
    /\ spans = NoSpans
    /\ JPEG_QUALITY \in Qualities

NextQuality ==
    \/ FramesRequest(1, FALSE)
    \/ FramesFromBytesRequest(1, FALSE)
    \/ RangeRequest(1, FALSE)
    \/ ScenesRequest(1, FALSE)
    \/ Respond

SpecQuality == InitQuality /\ [][NextQuality]_vars

(***************************************************************************)
(* Properties of the video tool.                                           *)
(***************************************************************************)
Completed == last.ep # ""
\* The request passed its parameter validation and ran inside a directory.
Accepted == Completed /\ last.dir # 0
EncCalls(log) == SelectSeq(log, LAMBDA c : c.tool = "ffmpeg")
OpCalls(log, op) == SelectSeq(log, LAMBDA c : c.tool = "ffmpeg" /\ c.op = op)
ToolCalls(log) == SelectSeq(log, LAMBDA c : IsTool(c))
Wrote(log, name) == \E i \in DOMAIN log : log[i].op = "write" /\ log[i].args[1] = name
Has(seq, x) == \E i \in DOMAIN seq : seq[i] = x

\* C1: /concat answers a list of fewer than 2 or more than 20 uploads with
\* HTTP 400 without creating a temporary directory, writing the list file or
\* invoking any tool; for 2..20 uploads it invokes the concat tool exactly once.
C1_ConcatBounds ==
    last.ep = "concat" =>
        LET n == Len(last.up)
        IN  /\ (n < 2 \/ n > 20) =>
                /\ last.resp.status = 400
                /\ last.dir = 0 /\ dirs = {}
                /\ ~Wrote(last.log, CONCAT_LIST)
                /\ ToolCalls(last.log) = <<>>
            /\ (n >= 2 /\ n <= 20) =>
                /\ last.dir # 0
                /\ Len(OpCalls(last.log, "concat")) = 1

C1_Witness ==
    /\ last.ep = "concat" /\ Len(last.up) = 21
    /\ last.resp.status = 400 /\ last.log = <<>>

\* The width the dimension probe of the upload returned (None when it failed).
ProbedDims == IF last.log[3].out = "ok" THEN last.up.dims ELSE None

\* C2: for a probed width w and an accepted (min_width, target_width), /resize
\* returns the upload unchanged with X-Resized=false and runs no re-encode when
\* w >= target_width, asks the tool for min_width when w < min_width and for
\* target_width when min_width <= w < target_width; exactly one case applies.
C2_ResizePolicy ==
    (last.ep = "resize" /\ Accepted /\ ProbedDims # None) =>
        LET w == ProbedDims[1]
            p == last.p
            enc == EncCalls(last.log)
            pass == w >= p.target_width
            small == w < p.min_width
            mid == p.min_width <= w /\ w < p.target_width
        IN  /\ pass =>
                /\ last.resp.status = 200
                /\ last.resp.body = Some(last.up.bytes)
                /\ last.resp.headers["X-Resized"] = "false"
                /\ enc = <<>>
            /\ small => Len(enc) = 1 /\ enc[1].op = "resize" /\ enc[1].args[2] = p.min_width
            /\ mid => Len(enc) = 1 /\ enc[1].op = "resize" /\ enc[1].args[2] = p.target_width
            /\ (pass \/ small \/ mid)
            /\ ~(pass /\ small) /\ ~(pass /\ mid) /\ ~(small /\ mid)

C2_Witness ==
    /\ last.ep = "resize" /\ Accepted /\ ProbedDims # None
    /\ ProbedDims[1] < last.p.min_width /\ last.p.min_width < last.p.target_width
    /\ last.resp.status = 200 /\ last.resp.headers["X-Resized"] = "true"

\* The duration the first probe of the upload returned (None when it failed).
ProbedDuration == IF last.log[3].out = "ok" THEN last.up.dur ELSE None
\* The end time handed to the trim operation: its -ss plus its -t argument.
PassedEnd(call) == call.args[2] + call.args[3]

\* C8: in /trim, when the source duration D is probed and
\* end_time > D the end time passed on is D; when end_time <= D or the probe
\* fails it is passed unchanged; start_time is never modified.
C8_TrimClamp ==
    (last.ep = "trim" /\ Accepted) =>
        LET call == OpCalls(last.log, "trim")[1]
            D == ProbedDuration
        IN  /\ call.args[2] = last.p.start_time
            /\ (D # None /\ last.p.end_time > Val(D)) => PassedEnd(call) = Val(D)
            /\ (D = None \/ last.p.end_time <= Val(D)) => PassedEnd(call) = last.p.end_time

\* What /trim does: when the source duration D is probed, is not zero and
\* end_time > D, the end time passed on is D; when end_time <= D, D is zero or
\* the probe fails, it is passed unchanged; start_time is never modified.
TrimClampNonZero ==
    (last.ep = "trim" /\ Accepted) =>
        LET call == OpCalls(last.log, "trim")[1]
            D == ProbedDuration
        IN  /\ Len(OpCalls(last.log, "trim")) = 1
            /\ call.args[2] = last.p.start_time
            /\ (D # None /\ Val(D) # 0 /\ last.p.end_time > Val(D)) => PassedEnd(call) = Val(D)
            /\ (D = None \/ Val(D) = 0 \/ last.p.end_time <= Val(D)) =>
                    PassedEnd(call) = last.p.end_time

\* A source of probed duration zero is trimmed to the requested end time.
C8_Witness ==
    /\ last.ep = "trim" /\ Accepted
    /\ ProbedDuration = Some(0) /\ last.p.end_time = 1
    /\ PassedEnd(OpCalls(last.log, "trim")[1]) = 1

\* C9 as stated: in /extend-duration, a probed duration >= target_duration
\* returns the upload unmodified with X-Extended=false and runs no encode; a
\* probed duration < target_duration invokes the tool exactly once with a filler
\* of target_duration - duration > 0 and X-Extended is true; X-Extended is true
\* iff the encode was run.
C9_Original ==
    (last.ep = "extend-duration" /\ Accepted /\ ProbedDuration # None) =>
        LET d == Val(ProbedDuration)
            target == last.p.target_duration
            enc == EncCalls(last.log)
        IN  /\ d >= target =>
                /\ last.resp.status = 200
                /\ last.resp.body = Some(last.up.bytes)
                /\ last.resp.headers["X-Extended"] = "false"
                /\ enc = <<>>
            /\ d < target =>
                /\ Len(enc) = 1 /\ enc[1].op = "extend"
                /\ enc[1].args[2] = target - d /\ enc[1].args[2] > 0
                /\ last.resp.status = 200 => last.resp.headers["X-Extended"] = "true"
            /\ last.resp.status = 200 =>
                (last.resp.headers["X-Extended"] = "true" <=> Len(enc) = 1)

\* The helper's own duration and dimension probes of the upload succeeded.
ExtendProbesOk ==
    /\ Len(last.log) >= 5
    /\ last.log[4].op = "duration" /\ last.log[4].out = "ok"
    /\ last.log[5].op = "dims" /\ last.log[5].out = "ok"
    /\ last.up.dims # None

\* C9 (amended): in /extend-duration, a probed duration >= target_duration
\* returns the upload unmodified with X-Extended=false and runs no encode; a
\* probed duration that is not zero and < target_duration invokes the tool
\* exactly once, with a filler of target_duration - duration > 0, provided the
\* extension helper's own probes of duration and dimensions succeed; when they
\* do not, or when the probed duration is zero, the request fails with HTTP
\* 500 and no encode is run.  In a 200 response X-Extended is true iff the
\* encode was run.
C9_Extend ==
    (last.ep = "extend-duration" /\ Accepted /\ ProbedDuration # None) =>
        LET d == Val(ProbedDuration)
            target == last.p.target_duration
            enc == EncCalls(last.log)
        IN  /\ d >= target =>
                /\ last.resp.status = 200
                /\ last.resp.body = Some(last.up.bytes)
                /\ last.resp.headers["X-Extended"] = "false"
                /\ enc = <<>>
            /\ (d # 0 /\ d < target /\ ExtendProbesOk) =>
                /\ Len(enc) = 1 /\ enc[1].op = "extend"
                /\ enc[1].args[2] = target - d /\ enc[1].args[2] > 0
                /\ last.resp.status = 200 => last.resp.headers["X-Extended"] = "true"
            /\ (d < target /\ (d = 0 \/ ~ExtendProbesOk)) =>
                /\ enc = <<>>
                /\ last.resp.status = 500
            /\ last.resp.status = 200 =>
                (last.resp.headers["X-Extended"] = "true" <=> Len(enc) = 1)

C9_Witness ==
    /\ last.ep = "extend-duration" /\ Accepted
    /\ ProbedDuration = Some(1) /\ last.p.target_duration = 3
    /\ Len(EncCalls(last.log)) = 1 /\ EncCalls(last.log)[1].args[2] = 2
    /\ last.resp.status = 200 /\ last.resp.headers["X-Extended"] = "true"

\* The positions of the ffmpeg invocations of the request that exited non-zero
\* and of those that timed out.
FailedCalls == {i \in DOMAIN last.log : IsEncode(last.log[i]) /\ last.log[i].out = "fail"}
TimedOutCalls == {i \in DOMAIN last.log : IsEncode(last.log[i]) /\ last.log[i].out = "timeout"}

\* C3 as stated: in every video-tool endpoint a parameter validation failure
\* yields 400, a non-zero exit of an extract/re-encode/concat invocation yields
\* 500 with the tool's diagnostic output in the detail, a timeout of such an
\* invocation yields 504, and no cause is reported under another's status.
C3_Original ==
    Completed =>
        /\ last.dir = 0 <=> last.resp.status = 400
        /\ \A i \in FailedCalls :
                /\ last.resp.status = 500
                /\ Has(last.resp.detail, Stderr(last.log[i].op))
        /\ TimedOutCalls # {} <=> last.resp.status = 504

\* The pixel aspect ratio /detect-scenes probed before normalizing.
ScenesPar == get_video_par(last.up, last.log[4].out)
\* The non-zero exits /detect-scenes recovers from.
ScenesRecovers(i) ==
    /\ last.ep = "detect-scenes"
    /\ \/ last.log[i].op = "thumb"
       \/ last.log[i].op = "parnorm" /\ (ScenesPar = None \/ ScenesPar = <<1, 1>>)

\* C3 (amended): in every video-tool endpoint a parameter validation failure
\* yields 400, a timeout of an extract/re-encode/concat invocation yields 504
\* and a non-zero exit of such an invocation yields 500 with the tool's
\* diagnostic output in the detail, except in /detect-scenes, where a non-zero
\* exit of the PAR re-encode of a video whose probed PAR is 1:1 or unknown
\* makes the detection run on the original upload, and a non-zero exit of a
\* thumbnail extraction only leaves that scene without thumbnail; no cause is
\* reported under another's status.
C3_FixedStatus ==
    Completed =>
        /\ last.dir = 0 <=> last.resp.status = 400
        /\ \A i \in FailedCalls :
                IF ~ScenesRecovers(i)
                THEN /\ last.resp.status = 500
                     /\ Has(last.resp.detail, Stderr(last.log[i].op))
                     /\ \A j \in DOMAIN last.log : j > i => ~IsTool(last.log[j])
                ELSE IF last.log[i].op = "parnorm"
                THEN /\ last.log[i + 1].tool = "scenedetect"
                     /\ last.log[i + 1].args[1] = INPUT
                ELSE last.resp.status = 200 =>
                        last.resp.json.scenes[last.log[i].args[3] + 1].thumbnail_base64 = None
        /\ TimedOutCalls # {} <=> last.resp.status = 504

C3_Witness ==
    /\ last.ep = "detect-scenes" /\ Accepted
    /\ \E i \in FailedCalls : last.log[i].op = "parnorm" /\ ScenesPar = None
    /\ \E i \in FailedCalls : last.log[i].op = "thumb"
    /\ last.resp.status = 200

\* C4 as stated: every external-process invocation of a video-tool request
\* that times out, probes included, aborts the request with 504, and the
\* request makes no further tool invocation.
C4_Original ==
    Completed =>
        \A i \in DOMAIN last.log :
            (IsTool(last.log[i]) /\ last.log[i].out = "timeout") =>
                /\ last.resp.status = 504
                /\ \A j \in DOMAIN last.log : j > i => ~IsTool(last.log[j])

\* C4 (amended): every extract/re-encode/concat/thumbnail invocation of a
\* video-tool request that times out aborts the request with 504 and is the
\* last thing the request does; a probe (duration, dimensions, pixel aspect
\* ratio, audio stream) that times out is read as a failed probe and never is
\* the reason of a 504: the status is 504 exactly when an extract/re-encode/
\* concat/thumbnail invocation timed out.
C4_Timeout ==
    Completed =>
        /\ \A i \in TimedOutCalls :
                /\ last.resp.status = 504
                /\ last.resp.detail = <<"Video processing timed out">>
                /\ i = Len(last.log)
        /\ last.resp.status = 504 => TimedOutCalls # {}

C4_Witness ==
    /\ last.ep = "normalize" /\ Accepted
    /\ \E i \in TimedOutCalls : last.log[i].op = "resize" /\ i = Len(last.log)
    /\ last.resp.status = 504

\* A duration probe that timed out and a request that went on to its encode.
C4_ProbeTimeoutGoesOn ==
    /\ last.ep = "trim" /\ Accepted
    /\ last.log[3].out = "timeout"
    /\ last.resp.status = 200

(***************************************************************************)
(* Properties of the temporary directories (SpecConc).                     *)
(***************************************************************************)
Readers == {s \in DOMAIN reqs : reqs[s].pc = "reading"}

\* C5: the temporary directory of a request belongs to that request only and
\* is gone once its handler has finished, whatever the exit path (success,
\* early failure response, HTTP error raised inside, tool failure, tool
\* timeout), for the video tool and for /download: the directories that exist
\* are exactly those of the requests still in flight, one each.
C5_TempDirs ==
    /\ \A s, t \in Readers : s # t => reqs[s].dir # reqs[t].dir
    /\ dirs = {reqs[s].dir : s \in Readers}
    /\ Completed => last.dir \notin dirs
    /\ Readers = {} => dirs = {}

C5_Witness ==
    /\ Accepted /\ last.resp.status = 504
    /\ Readers # {}
    /\ last.dir \notin dirs

\* A download that failed inside its directory, which is gone.
C5_DownloadFailed ==
    /\ last.ep = "download" /\ last.dir # 0
    /\ last.resp.json.success = FALSE
    /\ last.dir \notin dirs

(***************************************************************************)
(* Properties of the reel fetcher (SpecScrapper).                          *)
(***************************************************************************)
\* C6: get_loader builds the client at most once in the life of the process,
\* however the waiting requests and the startup are ordered: every call
\* returns the one client held by the global, and the initialization sequence
\* (session load, login, cookie fetch) has run at most once.
C6_SingleLoader ==
    /\ Len(inits) <= 1
    /\ Cardinality(handles) <= 1
    /\ loader = None => handles = {} /\ inits = <<>>
    /\ loader # None => handles \subseteq {Val(loader).id} /\ Len(inits) = 1

\* The startup ran with requests waiting, a request has been served since and
\* another one waits.
C6_Witness ==
    /\ started /\ last.ep = "download" /\ pending > 0
    /\ Len(inits) = 1 /\ handles = {1}

\* The library call of the completed request that raised, if one did.
RaisedCalls ==
    {i \in DOMAIN last.log : last.log[i].tool = "instaloader"
                             /\ last.log[i].out \in {"library", "other"}}

\* C7 as stated: in /metadata and /download an exception of the lookup or of
\* the download never becomes a server error: the response is structured, has
\* success=false, the request's shortcode and a non-empty error string, which
\* begins with 'Unexpected error: ' for an exception that is not the library's.
C7_Original ==
    (last.ep \in {"metadata", "download"} /\ RaisedCalls # {}) =>
        /\ last.resp.status = 200
        /\ last.resp.json.success = FALSE
        /\ last.resp.json.shortcode = last.p.shortcode
        /\ ~IsEmptyStr(last.resp.json.error)
        /\ \A i \in RaisedCalls :
                last.log[i].out = "other" => last.resp.json.error[1] = "Unexpected error: "

\* C7 (amended): in /metadata and /download an exception of the lookup or of
\* the download never becomes a server error: the response is structured, has
\* success=false, the request's shortcode and an error string, which is the
\* exception's own message for a library exception (empty when the exception
\* has no message) and 'Unexpected error: ' followed by the message, hence
\* non-empty, for any other exception.
C7_StructuredFailure ==
    (last.ep \in {"metadata", "download"} /\ RaisedCalls # {}) =>
        /\ last.resp.status = 200
        /\ last.resp.json.success = FALSE
        /\ last.resp.json.shortcode = last.p.shortcode
        /\ \A i \in RaisedCalls :
                /\ i = Len(last.log)
                /\ last.log[i].out = "other" =>
                        /\ last.resp.json.error[1] = "Unexpected error: "
                        /\ ~IsEmptyStr(last.resp.json.error)
                /\ last.log[i].out = "library" =>
                        Len(last.resp.json.error) = 1

C7_Witness ==
    /\ last.ep = "download" /\ last.dir # 0
    /\ \E i \in RaisedCalls : last.log[i].op = "download_post" /\ last.log[i].out = "other"
    /\ last.resp.json.success = FALSE
    /\ last.resp.json.error = <<"Unexpected error: ", "Post not found">>

(***************************************************************************)
(* Properties of normalize_video_par (SpecPar).                            *)
(***************************************************************************)
\* The application wrote a copy of the file it read and ran no re-encode.
Copied(a) ==
    /\ a.run.exc = NoExc
    /\ a.run.out = Some(a.source)
    /\ \A i \in DOMAIN a.run.calls : ~IsEncode(a.run.calls[i])

\* C10 as stated: normalizing a video whose probed PAR is 1:1 writes a
\* byte-identical output and runs no re-encode; normalizing the output of a
\* normalization yields the same bytes again.
C10_Original ==
    \A i \in DOMAIN chain :
        /\ chain[i].par = <<1, 1>> => Copied(chain[i])
        /\ (i > 1 /\ chain[i].run.out # None) =>
                Val(chain[i].run.out).bytes = chain[i].source.bytes

\* Where C10 does hold: a video whose probed PAR is 1:1 is copied, and the
\* output of a normalization is copied again whenever the PAR probe of that
\* output gives a result.
C10_ParIdempotent ==
    \A i \in DOMAIN chain :
        /\ chain[i].par = <<1, 1>> => Copied(chain[i])
        /\ (i > 1 /\ chain[i].po = "ok") =>
                /\ chain[i].par = <<1, 1>>
                /\ Copied(chain[i])
                /\ Val(chain[i].run.out).bytes = Val(chain[i - 1].run.out).bytes

\* The output of a normalization, which is 1:1, is normalized again while the
\* PAR probe times out: it is re-encoded and the bytes change.
C10_Witness ==
    /\ Len(chain) = 2
    /\ chain[1].run.out # None
    /\ chain[2].source = Val(chain[1].run.out)
    /\ chain[2].source.sar = "1:1"
    /\ chain[2].po = "timeout" /\ chain[2].par = None
    /\ \E i \in DOMAIN chain[2].run.calls : IsEncode(chain[2].run.calls[i])
    /\ chain[2].run.out # None
    /\ Val(chain[2].run.out).bytes # chain[2].source.bytes
\* A re-encoded 4:3 video is copied by the second application.
C10_CopiedAgain ==
    /\ Len(chain) = 2
    /\ chain[1].par = <<4, 3>> /\ chain[1].run.out # None
    /\ Val(chain[1].run.out).bytes # chain[1].source.bytes
    /\ chain[2].po = "ok" /\ Copied(chain[2])

(***************************************************************************)
(* Frame extraction: how many frames a response carries.                   *)
(***************************************************************************)
FramesEndpoints == {"extract-frames", "extract-frames-from-bytes"}
\* The extract command of the completed request ran and exited with status 0.
Extracted ==
    /\ Accepted
    /\ last.ep \in FramesEndpoints
    /\ \E i \in DOMAIN last.log : last.log[i].op = "extract" /\ last.log[i].out = "ok"
\* The numbered frame files the handler found in its directory.
FramesFound(log) ==
    Len(SelectSeq(log, LAMBDA c : c.tool = "os" /\ c.op = "exists" /\ c.out = "yes"))

\* C11 as stated: for a video of known duration d, an extraction with interval
\* I > 0 and cap M in 1..100 returns exactly min(M, floor(d / I)) frames.
C11_Original ==
    (Extracted /\ last.up.dur # None) =>
        /\ last.resp.status = 200
        /\ Len(last.resp.json.frames)
                = Min2(last.p.max_frames, Val(last.up.dur) \div last.p.interval_sec)

\* C11 amended: an extraction with interval I > 0 and cap M in 1..100 whose
\* command exits normally returns exactly the consecutively numbered frame files
\* the command wrote, in order and never more than M; count is their number,
\* and with no file the response is success=false "No frames extracted from
\* video".  The number is the command's, not computed from the duration.
C11_FramesCollected ==
    Extracted =>
        LET k == FramesFound(last.log)
            j == last.resp.json
        IN  /\ last.resp.status = 200
            /\ j.frames = [i \in 1..k |-> B64(i)]
            /\ j.count = k
            /\ k <= last.p.max_frames
            /\ j.success = (k > 0)
            /\ j.error = IF k = 0 THEN "No frames extracted from video" ELSE ""
C11_Witness ==
    /\ Extracted
    /\ last.up.dur = Some(3)
    /\ last.p.interval_sec = 2
    /\ last.p.max_frames = 2
    /\ Len(last.resp.json.frames) = 2

(***************************************************************************)
(* Tracing middleware: the headers of what dispatch hands back.            *)
(***************************************************************************)
Dispatched == spans.result # NoResult
\* The response dispatch returned carries the identifiers of its own request.
Tagged(res) ==
    /\ ~res.raised
    /\ TRACE_HEADER \in DOMAIN res.resp.headers
    /\ SPAN_HEADER \in DOMAIN res.resp.headers
    /\ res.resp.headers[TRACE_HEADER] = res.frame.trace_id
    /\ res.resp.headers[SPAN_HEADER] = res.frame.span_id

\* C12 as stated: every request that went through the middleware gets a
\* response whose X-Trace-ID and X-Span-ID headers are the identifiers of that
\* request, whether the downstream call returned or raised.
C12_Original == Dispatched => Tagged(spans.result)

\* C12 amended: when the downstream call returns a response, be it a normal one
\* or an error response (400, 500, 504), dispatch returns that response with
\* X-Trace-ID and X-Span-ID set to the identifiers of that request, the trace
\* identifier being the incoming one when the request carried a non-empty one;
\* when the downstream call raises, dispatch attaches nothing and the same
\* exception propagates.  The context variables are reset on both paths.
C12_TraceHeaders ==
    Dispatched =>
        LET res == spans.result
            incoming == HeaderGet(res.frame.headers, TRACE_HEADER)
        IN  /\ ~res.given.raised =>
                    /\ Tagged(res)
                    /\ res.resp.status = res.given.resp.status
                    /\ res.resp.body = res.given.resp.body
                    /\ \A h \in DOMAIN res.given.resp.headers :
                            h \in DOMAIN res.resp.headers
                    /\ StrTruthy(incoming) => res.frame.trace_id = Val(incoming)
            /\ res.given.raised =>
                    /\ res.raised
                    /\ res.exc = res.given.exc
                    /\ DOMAIN res.resp.headers = {}
            /\ spans.ctx[res.slot] = NoContext
C12_Witness ==
    /\ Dispatched
    /\ spans.result.given.resp.status = 500
    /\ Tagged(spans.result)
    /\ spans.result.resp.headers[TRACE_HEADER] = "trace-1"
    /\ \E s \in 1..NSlots : spans.calls[s] # Outside

(***************************************************************************)
(* /detect-scenes: the file the detection runs on.                         *)
(***************************************************************************)
ScenesDone == Accepted /\ last.ep = "detect-scenes"
\* normalize_video_par raised RuntimeError: its re-encode exited non-zero.
ParNormFailed ==
    \E i \in DOMAIN last.log : last.log[i].op = "parnorm" /\ last.log[i].out = "fail"
\* normalize_video_par returned: it copied, or its re-encode exited with 0.
ParNormReturned ==
    \/ Wrote(last.log, "copy")
    \/ \E i \in DOMAIN last.log :
            last.log[i].op = "parnorm" /\ last.log[i].out \in {"ok", "noout"}
DetectCalls == SelectSeq(last.log, LAMBDA c : c.tool = "scenedetect")
NonSquare(par) == par # None /\ par # <<1, 1>>

\* C13: in /detect-scenes, when the PAR normalization fails and the PAR the
\* handler probed is known and not 1:1, the request ends with HTTP 500 and the
\* detection is never run; when it fails and the probed PAR is 1:1 or unknown,
\* the detection runs (once) on the original upload; when the normalization
\* succeeds, the detection runs on the normalized file; the detection never runs
\* on an upload whose probed PAR is known to be non-square.
C13_ScenesFallback ==
    ScenesDone =>
        /\ (ParNormFailed /\ NonSquare(ScenesPar)) =>
                /\ last.resp.status = 500
                /\ DetectCalls = <<>>
        /\ (ParNormFailed /\ ~NonSquare(ScenesPar)) =>
                /\ Len(DetectCalls) = 1
                /\ DetectCalls[1].args[1] = INPUT
        /\ ParNormReturned =>
                /\ Len(DetectCalls) = 1
                /\ DetectCalls[1].args[1] = "normalized_video.mp4"
        /\ \A i \in DOMAIN DetectCalls :
                DetectCalls[i].args[1] = INPUT => ~NonSquare(ScenesPar)
C13_Witness ==
    /\ ScenesDone
    /\ ParNormFailed
    /\ ScenesPar = <<1, 1>>
    /\ last.resp.status = 200
    /\ DetectCalls[1].args[1] = INPUT
\* The other branch: a failed normalization of a video probed as 4:3.
C13_Refused ==
    /\ ScenesDone
    /\ ParNormFailed
    /\ ScenesPar = <<4, 3>>
    /\ last.resp.status = 500

(***************************************************************************)
(* Retries and partial results.                                            *)
(***************************************************************************)
IsLib(c) == c.tool = "instaloader"
\* The invocations the steps of a request consist of.
IsStep(c) == IsTool(c) \/ IsLib(c)
SameStep(c, d) == c.tool = d.tool /\ c.op = d.op /\ c.args = d.args
\* The invocation did not do its work: a timed-out probe, an ffmpeg run that
\* exited non-zero or timed out, a failed detection, a library call that raised.
FailedStep(c) ==
    \/ IsProbe(c) /\ c.out # "ok"
    \/ IsEncode(c) /\ c.out \in {"fail", "timeout"}
    \/ c.tool = "scenedetect" /\ c.out # "ok"
    \/ IsLib(c) /\ c.out \in {"library", "other"}
\* The response is a success: a 200 that is not a structured success=false.
SuccessPayload ==
    /\ last.resp.status = 200
    /\ "success" \in DOMAIN last.resp.json => last.resp.json.success
EndsAt(i) == ~SuccessPayload /\ \A j \in DOMAIN last.log : j > i => ~IsStep(last.log[j])

\* C14 as stated: within a request no probe, extract, re-encode, concat or
\* detection invocation and no scraping-library call is made twice, and after
\* the first failing one the request ends without a successful payload.
C14_Original ==
    Completed =>
        /\ \A i, j \in DOMAIN last.log :
                (i < j /\ IsStep(last.log[i])) => ~SameStep(last.log[i], last.log[j])
        /\ \A i \in DOMAIN last.log : FailedStep(last.log[i]) => EndsAt(i)

\* The probes whose value the handler cannot do without: the dimensions of
\* the upload in /resize and /normalize (entry 3 of the log); in
\* /extend-duration the handler's probe of the upload's duration (entry 3)
\* and, when the video is shorter than the target, the extension helper's
\* probes of its duration and dimensions (entries 4 and 5).
NeededProbe(i) ==
    /\ IsProbe(last.log[i])
    /\ last.log[i].args = <<INPUT>>
    /\ \/ last.ep \in {"resize", "normalize"} /\ i = 3 /\ last.log[i].op = "dims"
       \/ last.ep = "extend-duration" /\ i = 3 /\ last.log[i].op = "duration"
       \/ /\ last.ep = "extend-duration" /\ i \in {4, 5}
          /\ last.log[i].op \in {"duration", "dims"}
          /\ last.up.dur # None /\ Val(last.up.dur) < last.p.target_duration
\* The handler went on after entry i of its log: to a further invocation, to
\* its 200 response, or to the read of an output file that an invocation which
\* exited with status 0 had not written.
WentOn(i) ==
    \/ \E j \in DOMAIN last.log : j > i /\ IsStep(last.log[j])
    \/ last.resp.status = 200
    \/ /\ \E j \in DOMAIN last.log :
                j < i /\ IsEncode(last.log[j]) /\ last.log[j].out = "noout"
       /\ last.resp.status = 500

\* C14 amended: within a request no extract, re-encode, concat or detection
\* invocation and no library call of the download handler is made twice, and a
\* failed one is never run again; after the first failing one the request ends
\* without a successful payload and without any further invocation, except in
\* /detect-scenes, where a non-zero exit of the PAR re-encode of a video whose
\* probed PAR is 1:1 or unknown and a non-zero exit of a thumbnail extraction
\* are passed over.  A failing probe of the upload's dimensions in /resize and
\* /normalize, and in /extend-duration a failing probe of the upload's
\* duration by the handler or of its duration or dimensions by the extension
\* helper, ends the request with 500 and without any further invocation;
\* after any other failing probe the handler goes on without the value; a
\* probe may be run again on the same file.
C14_NoRetry ==
    Completed =>
        /\ \A i, j \in DOMAIN last.log :
                (i < j /\ IsStep(last.log[i]) /\ ~IsProbe(last.log[i]))
                    => ~SameStep(last.log[i], last.log[j])
        /\ \A i \in DOMAIN last.log :
                (FailedStep(last.log[i]) /\ ~IsProbe(last.log[i]))
                    => \/ EndsAt(i)
                       \/ last.log[i].out = "fail" /\ ScenesRecovers(i)
        /\ \A i \in DOMAIN last.log :
                (FailedStep(last.log[i]) /\ IsProbe(last.log[i])) =>
                    IF NeededProbe(i)
                    THEN EndsAt(i) /\ last.resp.status = 500
                    ELSE WentOn(i)
\* A detection request whose second thumbnail extraction timed out after the
\* first had exited non-zero.
C14_Witness ==
    /\ Completed
    /\ last.ep = "detect-scenes"
    /\ \E i, j \in DOMAIN last.log :
            /\ i < j
            /\ last.log[i].op = "thumb" /\ last.log[i].out = "fail"
            /\ last.log[j].op = "thumb" /\ last.log[j].out = "timeout"
    /\ last.resp.status = 504
\* /extend-duration ends in 500 when the helper's probe of the dimensions
\* times out.
C14_NeededProbeFailed ==
    /\ Completed /\ last.ep = "extend-duration"
    /\ Len(last.log) = 5
    /\ last.log[5].op = "dims" /\ last.log[5].out = "timeout"
    /\ last.resp.status = 500
\* /trim answers 200 after its probe of the duration timed out.
C14_ProbePassedOver ==
    /\ Accepted /\ last.ep = "trim"
    /\ last.log[3].op = "duration" /\ last.log[3].out = "timeout"
    /\ last.resp.status = 200
\* A download whose download_post raised after a successful lookup.
C14_DownloadFailed ==
    /\ last.ep = "download"
    /\ Len(last.log) = 2
    /\ FailedStep(last.log[2])
    /\ ~SuccessPayload

(***************************************************************************)
(* The authentication stages of get_loader.                                *)
(***************************************************************************)
StageRank(op) ==
    CASE op = "Instaloader" -> 0
      [] op = "load_session_from_file" -> 1
      [] op = "login" -> 2
      [] op = "save_session_to_file" -> 3
      [] op = "fetch_cookies_from_server" -> 4
      [] op = "apply_cookies_to_loader" -> 5
StageOps(steps) == [k \in DOMAIN steps |-> steps[k].op]

\* C15: the initialization of the client runs its stages in the order session
\* load, login (then saving the session), cookie fetch; the login and the
\* cookie fetch are attempted only when the client is not logged in after the
\* steps before them; the session is saved only right after a login that
\* succeeded; and whatever fails, the call that built the client returned it.
C15_AuthStages ==
    \A n \in DOMAIN inits :
        LET steps == inits[n]
        IN  /\ steps[1].op = "Instaloader"
            /\ \A k \in 2..Len(steps) :
                    /\ StageRank(steps[k - 1].op) < StageRank(steps[k].op)
                    /\ steps[k].op \in {"login", "fetch_cookies_from_server"}
                            => ~steps[k - 1].logged_in
                    /\ steps[k].op = "save_session_to_file"
                            => steps[k - 1].op = "login" /\ steps[k - 1].out = "ok"
            /\ loader # None
            /\ Val(loader).id \in handles
\* All three stages were attempted and each failed; a client was returned.
C15_Witness ==
    /\ Len(inits) = 1
    /\ StageOps(inits[1]) = <<"Instaloader", "load_session_from_file", "login",
                              "fetch_cookies_from_server">>
    /\ \A k \in 2..4 : inits[1][k].out = "fail"
    /\ handles = {1}
\* The login succeeded, the saving of the session failed, no cookie was fetched.
C15_SaveFailed ==
    /\ Len(inits) = 1
    /\ StageOps(inits[1]) = <<"Instaloader", "login", "save_session_to_file">>
    /\ inits[1][3].out = "fail"
    /\ handles = {1}

(***************************************************************************)
(* /metadata: the view count.                                              *)
(***************************************************************************)
MetadataOk == last.ep = "metadata" /\ last.resp.json.success
\* The value of the attribute of the post the handler read.
PostAttr(name) ==
    LET i == CHOOSE i \in DOMAIN last.log :
                last.log[i].op = "getattr" /\ last.log[i].args = <<name>>
    IN  last.log[i].out
IsInt(value) == value.type = "int"

\* C16: in a successful /metadata response viewCount is the post's play count
\* whenever that is an integer (0 included); it is the post's video view count
\* when the play count is absent or not convertible to an integer; and it is
\* null when neither gives an integer, in particular when both are absent.
C16_ViewCount ==
    MetadataOk =>
        LET play == PostAttr("play_count")
            view == PostAttr("video_view_count")
            viewCount == last.resp.json.viewCount
        IN  /\ IsInt(play) => viewCount = Some(play.int)
            /\ (~IsInt(play) /\ IsInt(view)) => viewCount = Some(view.int)
            /\ (viewCount # None /\ IsInt(view) /\ viewCount = Some(view.int))
                    => (~IsInt(play) \/ play.int = view.int)
            /\ (~IsInt(play) /\ ~IsInt(view)) => viewCount = None
\* A play count of 0 next to a video view count of 7.
C16_Witness ==
    /\ MetadataOk
    /\ PostAttr("play_count") = IntVal(0)
    /\ PostAttr("video_view_count") = IntVal(7)
    /\ last.resp.json.viewCount = Some(0)
\* A play count that is not convertible: the video view count is reported.
C16_NotConvertible ==
    /\ MetadataOk
    /\ PostAttr("play_count") = TextVal("n/a")
    /\ last.resp.json.viewCount = Some(7)

(***************************************************************************)
(* /download: the body of the response.                                    *)
(***************************************************************************)
\* The lookup and download_post of the completed /download request returned.
Downloaded2 ==
    /\ last.ep = "download"
    /\ Len(last.log) = 3
\* The files the directory of the request held, as the file system lists them.
Listed == last.log[3].out
Mp4s == {i \in DOMAIN Listed : Listed[i].ext = "mp4"}

\* C17: when the lookup and the download of a /download request succeed, the
\* response is the bytes of the first .mp4 file of the request's directory with
\* X-Shortcode equal to the requested shortcode; when the directory holds no
\* .mp4 file the response is success=false with error "No video file found
\* after download" and has no body.
C17_DownloadBody ==
    Downloaded2 =>
        /\ last.log[3].args[1] = last.dir
        /\ Mp4s # {} =>
                LET first == CHOOSE i \in Mp4s : \A j \in Mp4s : i <= j
                IN  /\ last.resp.status = 200
                    /\ last.resp.body = Some(Listed[first].bytes)
                    /\ last.resp.headers["X-Shortcode"] = last.p.shortcode
                    /\ last.resp.json = <<>>
        /\ Mp4s = {} =>
                /\ last.resp.body = None
                /\ last.resp.json.success = FALSE
                /\ last.resp.json.shortcode = last.p.shortcode
                /\ last.resp.json.error = <<"No video file found after download">>
\* The directory lists an image before the video.
C17_Witness ==
    /\ Downloaded2
    /\ Len(Listed) = 2
    /\ Listed[1].ext = "jpg"
    /\ last.resp.body = Some(Listed[2].bytes)
\* The directory holds an image only.
C17_NoVideo ==
    /\ Downloaded2
    /\ Len(Listed) = 1
    /\ Mp4s = {}
    /\ last.resp.body = None

(***************************************************************************)
(* The width policy of /resize and /normalize.                             *)
(***************************************************************************)
\* The policy as the specification words it.
WidthPolicy(w, p) ==
    IF w < p.min_width THEN p.min_width ELSE IF w < p.target_width THEN p.target_width ELSE w
ResizeCalls == OpCalls(last.log, "resize")
\* /normalize ran its PAR step and the step left a file.
ParStepDone ==
    \E i \in DOMAIN last.log : last.log[i].op = "parnorm" /\ last.log[i].out = "ok"
ParStepRaised ==
    \E i \in DOMAIN last.log : last.log[i].op = "parnorm" /\ last.log[i].out # "ok"
\* The completed request reached the resize step with a video of known width.
AtResizeStep ==
    /\ Accepted
    /\ last.ep \in {"resize", "normalize"}
    /\ ProbedDims # None
    /\ ~ParStepRaised
\* The width of the video that enters the resize step.
EnteringWidth ==
    IF last.ep = "normalize" /\ ParStepDone
    THEN ParNormalizedFile(last.up, SarParts(last.up.sar)).dims[1]
    ELSE last.up.dims[1]
\* The width the handler holds at the resize step: in /normalize the probed
\* width of the PAR-normalized file, or the upload's when that probe fails.
HeldWidth ==
    IF /\ last.ep = "normalize"
       /\ ParStepDone
       /\ \E i \in DOMAIN last.log :
            /\ IsProbe(last.log[i]) /\ last.log[i].op = "dims"
            /\ last.log[i].args = <<"par_normalized.mp4">> /\ last.log[i].out = "ok"
    THEN EnteringWidth
    ELSE last.up.dims[1]
PolicyApplied(w) ==
    LET nw == WidthPolicy(w, last.p)
    IN  /\ nw = w => ResizeCalls = <<>>
        /\ nw # w => Len(ResizeCalls) = 1 /\ ResizeCalls[1].args[2] = nw

\* C18 as stated: /resize and /normalize choose the same new width for the
\* width w of the video that enters the resize step (in /normalize the width
\* after PAR normalization) and run the resizing re-encode exactly when the
\* chosen width differs from w.
C18_Original == AtResizeStep => PolicyApplied(EnteringWidth)

\* C18 amended: the same, with w the width the handler holds at the resize
\* step: the probed width of the upload in /resize; in /normalize the probed
\* width of the PAR-normalized file, or the probed width of the upload when
\* there was no PAR step or the probe after it gave nothing.
C18_SamePolicy == AtResizeStep => PolicyApplied(HeldWidth)
\* /normalize upscales a PAR-normalized video to min_width.
C18_Witness ==
    /\ AtResizeStep
    /\ last.ep = "normalize"
    /\ ParStepDone
    /\ HeldWidth = 2 /\ last.up.dims[1] = 1
    /\ last.p.min_width = 3
    /\ Len(ResizeCalls) = 1 /\ ResizeCalls[1].args[2] = 3
\* /resize makes the same choice for the same width and parameters.
C18_ResizeSame ==
    /\ AtResizeStep
    /\ last.ep = "resize"
    /\ HeldWidth = 2
    /\ last.p.min_width = 3
    /\ Len(ResizeCalls) = 1 /\ ResizeCalls[1].args[2] = 3

(***************************************************************************)
(* Parameter validation comes first.                                       *)
(***************************************************************************)
\* The numeric parameters of the completed request are invalid, as the
\* specification lists them.
InvalidNumbers ==
    CASE last.ep \in {"extract-frames", "extract-frames-from-bytes"} ->
            \/ last.p.interval_sec <= 0
            \/ last.p.max_frames < 1 \/ last.p.max_frames > 100
      [] last.ep = "extract-frames-range" ->
            \/ last.p.start_time < 0
            \/ last.p.end_time <= last.p.start_time
            \/ last.p.max_frames < 1 \/ last.p.max_frames > 30
      [] last.ep = "trim" ->
            \/ last.p.start_time < 0
            \/ last.p.end_time <= last.p.start_time
      [] last.ep = "detect-scenes" ->
            \/ last.p.threshold <= 0
            \/ last.p.min_scene_len <= 0
      [] last.ep = "extend-duration" -> last.p.target_duration <= 0
      [] OTHER -> FALSE

\* C19: a request to /extract-frames, /extract-frames-from-bytes,
\* /extract-frames-range, /trim, /detect-scenes or /extend-duration whose
\* numeric parameters are invalid is answered with HTTP 400 and has read no
\* upload, created no directory, written no file and invoked no tool.
C19_ValidationFirst ==
    InvalidNumbers =>
        /\ last.resp.status = 400
        /\ last.dir = 0
        /\ last.log = <<>>
        /\ dirs = {}
\* A range request for 31 frames.
C19_Witness ==
    /\ last.ep = "extract-frames-range"
    /\ last.p.start_time = 0 /\ last.p.end_time = 2
    /\ last.p.max_frames = 31
    /\ last.resp.status = 400
    /\ last.resp.detail = <<"max_frames must be between 1 and 30">>

(***************************************************************************)
(* The status of a probe that gives nothing.                               *)
(***************************************************************************)
DimsUnknown == Accepted /\ last.ep \in {"resize", "normalize"} /\ ProbedDims = None
DurationUnknown == Accepted /\ last.ep = "extend-duration" /\ ~Truthy(ProbedDuration)

\* C20: when the dimensions of the upload cannot be probed, /resize and
\* /normalize answer HTTP 400 "Could not determine video dimensions"; when its
\* duration cannot be probed or is probed as 0, /extend-duration answers HTTP
\* 400 "Could not determine video duration".
C20_ProbeFailure400 ==
    /\ DimsUnknown =>
            /\ last.resp.status = 400
            /\ last.resp.detail = <<"Could not determine video dimensions">>
    /\ DurationUnknown =>
            /\ last.resp.status = 400
            /\ last.resp.detail = <<"Could not determine video duration">>
\* What the client receives instead: the 400 wrapped into a 500.
C20_Witness ==
    /\ DimsUnknown
    /\ last.ep = "resize"
    /\ last.resp.status = 500
    /\ last.resp.detail
            = <<"Unexpected error: ", "400: ", "Could not determine video dimensions">>
    /\ EncCalls(last.log) = <<>>
C20_ExtendWrapped ==
    /\ DurationUnknown
    /\ last.up.dur = Some(0)
    /\ last.resp.status = 500
    /\ last.resp.detail
            = <<"Unexpected error: ", "400: ", "Could not determine video duration">>

(***************************************************************************)
(* The -q:v argument of the invocations that write JPEG files.             *)
(***************************************************************************)
JpegCalls ==
    {i \in DOMAIN last.log :
        IsEncode(last.log[i]) /\ last.log[i].op \in {"extract", "range", "thumb"}}
QualityArg(c) == IF c.op = "range" THEN c.args[6] ELSE c.args[4]

\* C21: for every configured quality of 0..MaxQuality the -q:v argument of
\* frame extraction, range extraction and thumbnail extraction is the same
\* integer of 1..31: 31 - floor(quality / 3) below quality 90 and 1 from 90
\* on, hence 31 at quality 0, and no lower quality gives a smaller argument.
C21_QualityScale ==
    \A i \in JpegCalls :
        LET v == QualityArg(last.log[i])
        IN  /\ v \in 1..31
            /\ v = IF JPEG_QUALITY >= 90 THEN 1 ELSE 31 - (JPEG_QUALITY \div 3)
            /\ JPEG_QUALITY = 0 => v = 31
            /\ \A q \in 0..JPEG_QUALITY : jpeg_qscale(q) >= v
            /\ \A j \in JpegCalls : QualityArg(last.log[j]) = v
\* A thumbnail extracted at a quality for which the lower clamp binds.
C21_Witness ==
    /\ JPEG_QUALITY > 92
    /\ last.ep = "detect-scenes"
    /\ \E i \in JpegCalls : last.log[i].op = "thumb" /\ QualityArg(last.log[i]) = 1
\* Frames extracted at quality 0.
C21_Lowest ==
    /\ JPEG_QUALITY = 0
    /\ \E i \in JpegCalls : last.log[i].op \in {"extract", "range"}

(***************************************************************************)
(* Range extraction: the sampling interval.                                *)
(***************************************************************************)
RangeDone == Accepted /\ last.ep = "extract-frames-range"
RangeCalls == OpCalls(last.log, "range")
\* The length of the range once the end time is clamped to the probed duration.
RangeLength ==
    (IF Truthy(ProbedDuration) /\ last.p.end_time > Val(ProbedDuration)
     THEN Val(ProbedDuration) ELSE last.p.end_time) - last.p.start_time

\* C22: a range extraction over a range of positive length d with cap M in
\* 1..30 invokes the tool once, for length d and with the sampling interval
\* d / M when M > 1 and d when M <= 1, and a response reports that same
\* interval as interval_sec; over a range of length <= 0 it runs no extraction
\* and returns an empty frame list.
C22_RangeInterval ==
    RangeDone =>
        /\ last.p.max_frames \in 1..MaxRangeFramesLimit
        /\ RangeLength > 0 =>
                /\ Len(RangeCalls) = 1
                /\ RangeCalls[1].args[3] = RangeLength
                /\ QuotEq(RangeCalls[1].args[4],
                          IF last.p.max_frames > 1
                          THEN Quot(RangeLength, last.p.max_frames)
                          ELSE Quot(RangeLength, 1))
                /\ last.resp.status = 200 =>
                        QuotEq(last.resp.json.interval_sec, RangeCalls[1].args[4])
        /\ RangeLength <= 0 =>
                /\ EncCalls(last.log) = <<>>
                /\ last.resp.status = 200
                /\ last.resp.json.frames = <<>>
                /\ last.resp.json.count = 0
\* Two frames asked of a range of length 3: the interval is 3/2, not 1 or 3.
C22_Witness ==
    /\ RangeDone
    /\ RangeLength = 3
    /\ last.p.max_frames = 2
    /\ last.resp.status = 200
    /\ last.resp.json.interval_sec = Quot(3, 2)
    /\ RangeCalls[1].args[4] = Quot(3, 2)
\* A range that starts after the end of the source: nothing is run.
C22_EmptyRange ==
    /\ RangeDone
    /\ RangeLength < 0
    /\ ToolCalls(last.log) = <<Probe("duration", INPUT, "ok")>>
    /\ last.resp.json.success = FALSE
\* A single frame asked of a range: the interval is the whole range.
C22_SingleFrame ==
    /\ RangeDone
    /\ RangeLength = 2
    /\ last.p.max_frames = 1
    /\ RangeCalls[1].args[4] = Quot(2, 1)
    /\ last.resp.status = 200

(***************************************************************************)
(* Scene detection: the records of a successful response.                  *)
(***************************************************************************)
ScenesOk == Accepted /\ last.ep = "detect-scenes" /\ last.resp.status = 200
\* The scenes the detection returned, in its order.
Detected ==
    LET l == SelectSeq(last.log, LAMBDA c : c.tool = "timecode") IN l[1].out
ThumbCalls == OpCalls(last.log, "thumb")

\* C23: a successful /detect-scenes response lists one record per detected
\* scene in detection order, with index 0..n-1, total_scenes = n and duration
\* = end_time - start_time; with thumbnails requested, scene i has exactly one
\* extraction, at (start_time + end_time) / 2 of the original upload, and an
\* extraction that exits non-zero leaves that record's thumbnail empty;
\* without, nothing is extracted.
C23_SceneRecords ==
    ScenesOk =>
        LET j == last.resp.json
            n == Len(Detected)
        IN  /\ Len(j.scenes) = n
            /\ j.total_scenes = n
            /\ j.success
            /\ \A i \in 1..n :
                    /\ j.scenes[i].index = i - 1
                    /\ j.scenes[i].start_time = Detected[i].start
                    /\ j.scenes[i].end_time = Detected[i].end
                    /\ j.scenes[i].duration = Detected[i].end - Detected[i].start
            /\ IF last.p.extract_thumbnails
               THEN /\ Len(ThumbCalls) = n
                    /\ \A i \in 1..n :
                            /\ ThumbCalls[i].args[1] = INPUT
                            /\ QuotEq(ThumbCalls[i].args[2],
                                      Quot(Detected[i].start + Detected[i].end, 2))
                            /\ ThumbCalls[i].args[3] = i - 1
                            /\ ThumbCalls[i].out \in {"ok", "fail"}
                            /\ (ThumbCalls[i].out = "fail")
                                    = (j.scenes[i].thumbnail_base64 = None)
               ELSE /\ ThumbCalls = <<>>
                    /\ \A i \in 1..n : j.scenes[i].thumbnail_base64 = None
\* Two scenes detected on the normalized file; the first thumbnail fails, the
\* second is taken from the upload.
C23_Witness ==
    /\ ScenesOk
    /\ Len(Detected) = 2
    /\ \E i \in DOMAIN last.log :
            /\ last.log[i].op = "detect"
            /\ last.log[i].args[1] = "normalized_video.mp4"
    /\ Len(ThumbCalls) = 2
    /\ ThumbCalls[1].out = "fail"
    /\ ThumbCalls[2].out = "ok"
    /\ ThumbCalls[2].args[1] = INPUT
    /\ last.resp.json.scenes[1].thumbnail_base64 = None
    /\ last.resp.json.scenes[2].thumbnail_base64 # None
    /\ last.resp.json.scenes[2].index = 1

(***************************************************************************)
(* Tracing middleware: the identifiers and the context variables.          *)
(***************************************************************************)
InCall(s) == spans.calls[s] # Outside
\* The span identifiers of the dispatch calls that are in progress or have
\* just returned, one entry per call.
LiveSpans ==
    [s \in {t \in 1..NSlots : InCall(t)} |-> spans.calls[s].frame.span_id]
IsGenerated(id) == \E n \in 1..(MaxUuids + 1) : id = Uuid4(n)

\* C24: while the downstream call of a request is in progress the context
\* variables of its task hold its trace and span identifiers (and
\* get_trace_headers gives both); the trace identifier is the incoming
\* X-Trace-ID when that is present and non-empty and a generated one
\* otherwise; the span identifier is generated for the hop and shared with no
\* other call; X-Parent-Span-ID is set only to a received X-Span-ID; once the
\* call has ended, by return or by exception, both variables hold the values
\* they had before.
C24_TraceContext ==
    /\ \A s \in 1..NSlots :
            IF InCall(s)
            THEN LET fr == spans.calls[s].frame
                     incoming == HeaderGet(fr.headers, TRACE_HEADER)
                 IN  /\ get_trace_id(spans.ctx[s]) = Some(fr.trace_id)
                     /\ get_span_id(spans.ctx[s]) = Some(fr.span_id)
                     /\ get_trace_headers(spans.ctx[s])
                            = (TRACE_HEADER :> fr.trace_id) @@ (SPAN_HEADER :> fr.span_id)
                     /\ IF incoming # None /\ Val(incoming) # ""
                        THEN fr.trace_id = Val(incoming)
                        ELSE IsGenerated(fr.trace_id)
                     /\ \E n \in 1..(MaxUuids + 1) : fr.span_id = First16(Uuid4(n))
                     /\ \A t \in 1..NSlots :
                            (t # s /\ InCall(t)) => LiveSpans[t] # fr.span_id
                     /\ Dispatched => spans.result.frame.span_id # fr.span_id
            ELSE spans.ctx[s] = NoContext
    /\ Dispatched =>
            LET res == spans.result
            IN  /\ spans.ctx[res.slot] = res.frame.tokens
                /\ get_trace_headers(spans.ctx[res.slot]) = <<>>
                /\ (~res.raised /\ PARENT_HEADER \in DOMAIN res.resp.headers) =>
                        /\ SPAN_HEADER \in DOMAIN res.frame.headers
                        /\ res.resp.headers[PARENT_HEADER] = res.frame.headers[SPAN_HEADER]
\* A call that ended by exception, its variables restored, while another
\* request that came with a trace identifier is still in its downstream call.
C24_Witness ==
    /\ Dispatched
    /\ spans.result.raised
    /\ spans.result.frame.ctx # NoContext
    /\ spans.ctx[spans.result.slot] = NoContext
    /\ \E s \in 1..NSlots :
            /\ InCall(s)
            /\ spans.calls[s].frame.trace_id = "trace-1"
            /\ spans.ctx[s].trace_id = Some("trace-1")
\* A request with an empty X-Trace-ID gets a generated trace identifier.
C24_EmptyIncoming ==
    \E s \in 1..NSlots :
        /\ InCall(s)
        /\ HeaderGet(spans.calls[s].frame.headers, TRACE_HEADER) = Some("")
        /\ IsGenerated(spans.calls[s].frame.trace_id)
\* A response that echoes the received span identifier.
C24_ParentEchoed ==
    /\ Dispatched
    /\ ~spans.result.raised
    /\ PARENT_HEADER \in DOMAIN spans.result.resp.headers
    /\ spans.result.resp.headers[PARENT_HEADER] = "span-0"

(***************************************************************************)
(* Cookies: what /cookies and /cookies/refresh do to the jar.              *)
(***************************************************************************)
CookieEndpoints == {"cookies", "cookies/refresh"}
HasNameAndValue(c) == c.name # "" /\ c.value # ""
\* The cookie list a completed request handed to apply_cookies_to_loader:
\* the one it was sent, or the one the companion server answered with.
GivenCookies(done) ==
    IF done.ep = "cookies" THEN done.p.cookies ELSE done.log[1].out
SetCalls(log) == SelectSeq(log, LAMBDA c : c.tool = "session")
\* The set calls the claim expects for a list: one for each cookie with a name
\* and a value, in the order of the list, with the default domain and path.
ExpectedSets(cookies) ==
    LET v == SelectSeq(cookies, HasNameAndValue)
    IN  [i \in 1..Len(v) |->
            CookieSet(v[i].name, v[i].value,
                      IF v[i].domain = None THEN ".instagram.com" ELSE Val(v[i].domain),
                      IF v[i].path = None THEN "/" ELSE Val(v[i].path))]
SameKey(a, b) == a[1] = b[1] /\ a[3] = b[3] /\ a[4] = b[4]
\* A jar after a sequence of set calls: a later call replaces an earlier
\* cookie of the same name, domain and path.
JarAfter(before, sets) ==
    {c \in before :
        \A i \in DOMAIN sets : ~SameKey(sets[i].args, <<c.name, c.value, c.domain, c.path>>)}
    \cup {[name |-> sets[i].args[1], value |-> sets[i].args[2],
           domain |-> sets[i].args[3], path |-> sets[i].args[4]] :
            i \in {k \in DOMAIN sets :
                    \A m \in DOMAIN sets : m > k => ~SameKey(sets[m].args, sets[k].args)}}
\* The jar of the client the handler got from get_loader(): that of the
\* global, or of the client this very call has built.
JarBefore ==
    IF loader # None THEN Val(loader).jar
    ELSE LET steps == inits'[Len(inits')] IN steps[Len(steps)].jar
CookieStep ==
    (last = NoRequest /\ last'.ep \in CookieEndpoints) =>
        LET sets == SetCalls(last'.log)
            after == Val(loader').jar
        IN  /\ sets = ExpectedSets(GivenCookies(last'))
            /\ after = JarAfter(JarBefore, sets)
            /\ last'.resp.status \in {200, 400}
            /\ (last'.resp.status = 400) = (sets = <<>>)
            /\ last'.resp.status = 400 => after = JarBefore

\* C25: /cookies and /cookies/refresh set on the client's jar exactly the
\* cookies of their list that have a non-empty name and a non-empty value, in
\* order, with domain '.instagram.com' and path '/' where the cookie has
\* none, and skip the others; the request succeeds iff at least one cookie
\* was set and is answered with HTTP 400 otherwise (no cookie fetched, or
\* none that could be applied), and then the jar is as it was.
C25_CookieJar == [][CookieStep]_vars
\* A list of two cookies of which only the second is set.
C25_Witness ==
    /\ last.ep = "cookies"
    /\ last.resp.status = 200
    /\ Len(last.p.cookies) = 2
    /\ ~HasNameAndValue(last.p.cookies[1])
    /\ SetCalls(last.log) = <<CookieSet("sessionid", "b", ".instagram.com", "/")>>
    /\ [name |-> "sessionid", value |-> "b", domain |-> ".instagram.com", path |-> "/"]
            \in Val(loader).jar
\* The companion server answers with cookies none of which can be applied.
C25_RefreshRefused ==
    /\ last.ep = "cookies/refresh"
    /\ last.resp.status = 400
    /\ Len(last.log[1].out) = 2
    /\ SetCalls(last.log) = <<>>
    /\ Val(loader).jar # {}
\* The second cookie of a list replaces the first.
C25_Replaced ==
    /\ last.ep = "cookies"
    /\ Len(SetCalls(last.log)) = 2
    /\ Cardinality(Val(loader).jar) = 1

(***************************************************************************)
(* Concatenation: the list file.                                           *)
(***************************************************************************)
ConcatDone == Accepted /\ last.ep = "concat"
\* Positions in the log of the completed request.
ListWrites ==
    {i \in DOMAIN last.log : last.log[i].op = "write" /\ last.log[i].args[1] = CONCAT_LIST}
ConcatCalls ==
    {i \in DOMAIN last.log : IsEncode(last.log[i]) /\ last.log[i].op = "concat"}
\* The file at path holds the bytes of upload k when the tool runs.
Holds(path, k, before) ==
    /\ \E i \in 1..(before - 1) :
            /\ last.log[i].op = "write"
            /\ last.log[i].args = <<path, last.up[k].bytes>>
    /\ \A i \in 1..(before - 1) :
            (last.log[i].op = "write" /\ last.log[i].args[1] = path)
                => last.log[i].args[2] = last.up[k].bytes

\* C26: /concat writes the list file once, before its only tool invocation,
\* with one entry per upload in upload order, entry k naming the file that
\* holds upload k; when the invocation returns, with status zero or not, the
\* next thing the handler does is remove the list file.
C26_ConcatOrder ==
    ConcatDone =>
        /\ Cardinality(ListWrites) = 1
        /\ Cardinality(ConcatCalls) = 1
        /\ \A w \in ListWrites, c \in ConcatCalls :
                LET list == last.log[w].args[2]
                IN  /\ w < c
                    /\ last.log[c].args = <<CONCAT_LIST>>
                    /\ Len(list) = Len(last.up)
                    /\ \A k \in 1..Len(list) :
                            /\ list[k][1] = "file"
                            /\ Holds(list[k][2], k, c)
                    /\ \A k, m \in 1..Len(list) : k # m => list[k][2] # list[m][2]
                    /\ last.log[c].out # "timeout" =>
                            /\ c < Len(last.log)
                            /\ last.log[c + 1] = RemoveFile(CONCAT_LIST)
\* Three uploads, the second and third alike but not the first; the tool
\* exits non-zero and the list file is removed.
C26_Witness ==
    /\ ConcatDone
    /\ Len(last.up) = 3
    /\ last.up[1] # last.up[2]
    /\ last.up[2] = last.up[3]
    /\ last.resp.status = 500
    /\ \E c \in ConcatCalls : last.log[c].out = "fail"
    /\ last.log[Len(last.log)] = RemoveFile(CONCAT_LIST)
\* The same with a tool that exits with status zero.
C26_Concatenated ==
    /\ ConcatDone
    /\ last.up[1] # last.up[2]
    /\ last.resp.status = 200
    /\ \E i \in DOMAIN last.log : last.log[i] = RemoveFile(CONCAT_LIST)

(***************************************************************************)
(* Trim: the sign of the duration argument.                                *)
(***************************************************************************)
TrimCalls == OpCalls(last.log, "trim")

\* C27: whenever /trim invokes the tool, the duration argument (the clamped
\* end time minus start_time) is strictly positive, whatever the probed
\* duration of the source, sources shorter than start_time included.
C27_TrimPositive ==
    (Accepted /\ last.ep = "trim") =>
        \A i \in DOMAIN TrimCalls : TrimCalls[i].args[3] > 0
\* A source of 1 s trimmed from 2 s to 3 s: the tool is asked for -t -1.
C27_Witness ==
    /\ Accepted
    /\ last.ep = "trim"
    /\ last.p = [start_time |-> 2, end_time |-> 3]
    /\ ProbedDuration = Some(1)
    /\ Len(TrimCalls) = 1
    /\ TrimCalls[1].args = <<INPUT, 2, -1>>
\* What does hold: the argument is positive unless the source was probed as
\* no longer than start_time (and not as empty).
C27_PositiveWithin ==
    (Accepted /\ last.ep = "trim") =>
        \A i \in DOMAIN TrimCalls :
            (TrimCalls[i].args[3] > 0)
                = ~(Truthy(ProbedDuration) /\ Val(ProbedDuration) <= last.p.start_time)

(***************************************************************************)
(* Frame extraction: the shape of every response.                          *)
(***************************************************************************)
AllFramesEndpoints == FramesEndpoints \cup {"extract-frames-range"}
\* A FramesResponse was returned.
FramesAnswered == Accepted /\ last.ep \in AllFramesEndpoints /\ last.resp.status = 200
\* The numbered files the tool left; none when it was not run.
WrittenFrames ==
    LET l == SelectSeq(last.log, LAMBDA c : c.tool = "os" /\ c.op = "written")
    IN  IF l = <<>> THEN {} ELSE l[1].out
\* The length of the run 1, 2, ... of the written files, up to cap.
PrefixLength(written, cap) == Cardinality({i \in 1..cap : \A k \in 1..i : k \in written})

\* C28: every response of /extract-frames, /extract-frames-from-bytes and
\* /extract-frames-range has count = len(frames) <= max_frames, frames being
\* the files numbered 1..count of the tool's output in increasing order, where
\* count + 1 is the first index that is missing (or max_frames + 1), and
\* success = (count > 0).
C28_FramesShape ==
    FramesAnswered =>
        LET j == last.resp.json
            n == PrefixLength(WrittenFrames, last.p.max_frames)
        IN  /\ j.count = Len(j.frames)
            /\ j.count <= last.p.max_frames
            /\ j.count = n
            /\ j.frames = [i \in 1..n |-> B64(i)]
            /\ j.success = (j.count > 0)
\* The tool left files 1 and 3: the collection stops at the missing file 2.
C28_Witness ==
    /\ FramesAnswered
    /\ WrittenFrames = {1, 3}
    /\ last.p.max_frames > 2
    /\ last.resp.json.count = 1
    /\ last.resp.json.success
\* The first file is missing: nothing is collected.
C28_FirstMissing ==
    /\ FramesAnswered
    /\ last.ep = "extract-frames-range"
    /\ WrittenFrames = {2, 3}
    /\ last.resp.json.count = 0
    /\ ~last.resp.json.success
\* As many files as were asked for.
C28_Full ==
    /\ FramesAnswered
    /\ last.ep = "extract-frames-from-bytes"
    /\ last.p.max_frames = 2
    /\ WrittenFrames = {1, 2}
    /\ last.resp.json.count = 2

(***************************************************************************)
(* Downloads that share the client.                                        *)
(***************************************************************************)
\* The completed request is a /download whose download_post returned.
DownloadRan == last.ep = "download" /\ Len(last.log) = 3
\* What download_post wrote, and the directory it wrote into.
WrittenByDownload == last.log[2].args[3]
DownloadTarget == last.log[2].args[2]
OwnFile(f) == f.bytes.id[1] = last.p.shortcode

\* C29: however the handlers of the waiting requests are ordered, the
\* download of a /download request goes into the directory of that request,
\* which is what the client's dirname_pattern names when download_post runs;
\* the handler finds there exactly the files of its own post, returns the
\* video of its own shortcode and reports a missing video only when its post
\* has none.
C29_OwnDirectory ==
    DownloadRan =>
        /\ DownloadTarget = last.dir
        /\ Val(loader).dirname_pattern = last.dir
        /\ Cardinality(handles) = 1
        /\ Listed = WrittenByDownload
        /\ \A i \in DOMAIN Listed : OwnFile(Listed[i])
        /\ last.resp.status = 200
        /\ IF \E i \in DOMAIN WrittenByDownload : WrittenByDownload[i].ext = "mp4"
           THEN /\ last.resp.body # None
                /\ Val(last.resp.body).id[1] = last.p.shortcode
                /\ last.resp.headers["X-Shortcode"] = last.p.shortcode
           ELSE last.resp.json.error = <<"No video file found after download">>
\* A download served while further requests wait, by a client that earlier
\* requests have used, in a directory that is not the first name.
C29_Witness ==
    /\ DownloadRan
    /\ pending > 0
    /\ handles = {1}
    /\ last.dir = 2
    /\ last.p.shortcode = "xyz"
    /\ last.resp.body = Some(Bytes(<<"xyz", "reel">>, <<"mp4">>))

(***************************************************************************)
(* The steps and the flags of /normalize.                                  *)
(***************************************************************************)
\* The completed request is a /normalize that got past the probe of the
\* upload's dimensions: its log holds the probes of dimensions, duration and
\* PAR of the upload.
NormalizeProbed ==
    /\ last.ep = "normalize" /\ Accepted
    /\ ProbedDims # None
    /\ Len(last.log) >= 5
\* The PAR of the upload as probed (None when unknown).
SourcePar == get_video_par(last.up, last.log[5].out)
ParRuns == OpCalls(last.log, "parnorm")
NormalizeReturned == NormalizeProbed /\ last.resp.status = 200
Flag(name) == last.resp.headers[name] = "true"
\* The steps that ran, in order.
StepsRun ==
    (IF ParRuns # <<>> THEN <<"parnorm">> ELSE <<>>)
    \o (IF ResizeCalls # <<>> THEN <<"resize">> ELSE <<>>)

\* C30: /normalize runs the PAR normalization exactly when the PAR of the
\* upload was probed and is not 1:1; in its response X-Was-PAR-Normalized is
\* 'true' exactly when that step ran and X-Was-Resized exactly when the
\* resize ran, the body is the upload itself exactly when both are 'false'
\* and otherwise the output of the last step that ran, and
\* X-Original-Width/Height are the probed dimensions of the upload.
C30_NormalizeSteps ==
    /\ NormalizeProbed =>
        /\ (ParRuns # <<>>) <=> (SourcePar # None /\ SourcePar # <<1, 1>>)
        /\ Len(ParRuns) <= 1 /\ Len(ResizeCalls) <= 1
        /\ \A i \in DOMAIN ParRuns : ParRuns[i].args = <<INPUT>>
    /\ NormalizeReturned =>
        /\ last.resp.headers["X-Was-PAR-Normalized"] \in {"true", "false"}
        /\ last.resp.headers["X-Was-Resized"] \in {"true", "false"}
        /\ Flag("X-Was-PAR-Normalized") <=> (ParRuns # <<>>)
        /\ Flag("X-Was-Resized") <=> (ResizeCalls # <<>>)
        /\ (last.resp.body = Some(last.up.bytes))
             <=> (~Flag("X-Was-PAR-Normalized") /\ ~Flag("X-Was-Resized"))
        /\ last.resp.body = Some(Bytes(last.up.bytes.id, StepsRun))
        /\ last.resp.headers["X-Original-Width"] = last.up.dims[1]
        /\ last.resp.headers["X-Original-Height"] = last.up.dims[2]
\* Both steps ran: the body is the resized PAR-normalized video and the
\* original dimensions are still those of the upload.
C30_Witness ==
    /\ NormalizeReturned
    /\ SourcePar = <<4, 3>>
    /\ StepsRun = <<"parnorm", "resize">>
    /\ Flag("X-Was-PAR-Normalized") /\ Flag("X-Was-Resized")
    /\ last.resp.body = Some(Bytes(last.up.bytes.id, <<"parnorm", "resize">>))
    /\ last.resp.headers["X-Original-Width"] = last.up.dims[1]
    /\ last.resp.headers["X-New-Width"] # last.up.dims[1]
\* A video of unknown PAR goes through untouched.
C30_Unknown ==
    /\ NormalizeReturned
    /\ SourcePar = None
    /\ StepsRun = <<>>
    /\ last.resp.body = Some(last.up.bytes)
    /\ ~Flag("X-Was-PAR-Normalized") /\ ~Flag("X-Was-Resized")
\* Only the PAR step ran.
C30_ParOnly ==
    /\ NormalizeReturned
    /\ StepsRun = <<"parnorm">>
    /\ Flag("X-Was-PAR-Normalized") /\ ~Flag("X-Was-Resized")
    /\ last.resp.body = Some(Bytes(last.up.bytes.id, <<"parnorm">>))
====
